---------------------------- MODULE Spec2Model ----------------------------
(***************************************************************************)
(* A model of the Crypto-App core: the encryption history kept in          *)
(* localStorage (src/src/lib/storage.ts) and the envelope protocol         *)
(* (src/src/lib/crypto.ts).                                                *)
(*                                                                         *)
(* Texts are sequences of character codes, byte arrays are sequences of    *)
(* 0..255.  The text kept in localStorage is modelled at the level of the  *)
(* JSON document it holds.                                                 *)
(***************************************************************************)
EXTENDS Integers, Sequences, FiniteSets, TLC

VARIABLES
  ls,        \* localStorage[STORAGE_KEY]: the stored text, or absent
  medium,    \* how the page reaches localStorage: "ok", "noWindow", "blocked"
  clock,     \* the value Date.now() returns
  nextId,    \* the ids crypto.randomUUID() has handed out so far
  pc,        \* per caller: "idle", "addWrite", "removeWrite"
  hist,      \* per caller: the `history` array read by getHistory()
  arg,       \* per caller: the id its removeFromHistory call was given
  outcome,   \* per caller: how its last completed call ended
  appended,  \* ids of the successful addToHistory calls, oldest first
  disturbed, \* how many setItem calls have thrown, plus the
             \* removeFromHistory and clearHistory calls so far
  listed,    \* what the last getHistory() call of a reader returned
  pObj,      \* the value an input of parsePayload is made from
  pForm,     \* how the input was made from it
  pIn,       \* the input handed to parsePayload
  pOut,      \* what parsePayload did with it
  browser,   \* the engine whose SubtleCrypto the page runs on
  cPlain,    \* the plaintext given to encrypt: a string or a buffer
  cPass,     \* the passphrase given to encrypt
  cOpts,     \* the options given to encrypt
  cEnv,      \* what encrypt returned, as it reaches decrypt
  cTamper,   \* the part of the envelope altered on the way, if any
  cOut,      \* the passphrase given to decrypt and what decrypt did
  rng,       \* how many values crypto.getRandomValues has handed out
  sResult,   \* the `result` state of the encrypt tab
  sError,    \* the `error` state of the encrypt tab
  sMade,     \* what the encrypt calls so far were given and returned
  sLast,     \* the last call of encrypt or decrypt and how it ended
  kKey,      \* the passphrase deriveKey was given and the key it returned
  kText,     \* the text exportKey returned
  kImported, \* what importKey made of a key text
  kOut,      \* what decryptWithKey did
  wPwd,      \* the password in the passphrase field
  wRes,      \* what calculatePasswordStrength returned for it
  wPrev,     \* the password one character shorter and its result
  gLength,   \* the `length` state of the passphrase generator
  gOut,      \* the last call of generatePassphrase: its draws and its text
  dInput,    \* the `ciphertextInput` state of the decrypt tab
  dPass,     \* the `passphrase` state of the decrypt tab
  dKey,      \* the `importedKey` state of the decrypt tab
  dBusy,     \* the `isDecrypting` state of the decrypt tab
  dResult,   \* the `result` state of the decrypt tab
  dError,    \* the `error` state of the decrypt tab
  dFlight,   \* the decryption handleDecrypt is awaiting, if any
  dImport,   \* the key files handleKeyImport is awaiting
  dLast,     \* the last attempt of handleDecrypt: its secret and how it ended
  dHad       \* a plaintext was on display when the last attempt started

storeVars == <<ls, medium, clock, nextId, pc, hist, arg, outcome, appended,
               disturbed, listed>>

parseVars == <<pObj, pForm, pIn, pOut>>

cryptoVars == <<browser, cPlain, cPass, cOpts, cEnv, cTamper, cOut>>

tabVars == <<rng, sResult, sError, sMade, sLast>>

keyVars == <<kKey, kText, kImported, kOut>>

meterVars == <<wPwd, wRes, wPrev>>

genVars == <<gLength, gOut>>

decVars == <<dInput, dPass, dKey, dBusy, dResult, dError, dFlight, dImport,
             dLast, dHad>>

pageVars == <<genVars, decVars>>

otherVars == <<tabVars, keyVars, meterVars, pageVars>>

nonStoreVars == <<parseVars, cryptoVars, otherVars>>

nonParseVars == <<storeVars, cryptoVars, otherVars>>

nonCryptoVars == <<storeVars, parseVars, otherVars>>

vars == <<storeVars, parseVars, cryptoVars, otherVars>>

-----------------------------------------------------------------------------
(* Bounds of the model *)

MaxAppends == 23
MaxClock == 1
MaxDisturb == 1
MaxSharedAppends == 2
MaxStored == 3

(* Program constants *)

MAX_ITEMS == 20

Callers == {1, 2}

Min(a, b) == IF a < b THEN a ELSE b

-----------------------------------------------------------------------------
(* JSON documents as the history store sees them *)

NoItem == [kind |-> "absent"]

\* JSON values.  A string holds its character codes, an object its members
\* <<key, value>> in insertion order.
JNull == [t |-> "null"]
JBool(b) == [t |-> "bool", b |-> b]
JNum(n) == [t |-> "num", n |-> n]
JStr(s) == [t |-> "str", s |-> s]
JObject(members) == [t |-> "obj", members |-> members]
JArr(xs) == [t |-> "arr", xs |-> xs]
Undefined == [t |-> "undefined"]

\* A number that is no integer: whole + tenths / 10, with tenths in 1..9
JFraction(whole, tenths) == [t |-> "num", n |-> whole, tenths |-> tenths]

\* The integer part of a number, as the conversion of a JavaScript number to
\* an unsigned long takes it
IntegerPart(v) == v.n

\* The text of a JSON document, and a text that is no JSON at all.
TextOf(doc) == [kind |-> "text", valid |-> TRUE, doc |-> doc]
Garbage == [kind |-> "text", valid |-> FALSE]
EmptyText == [kind |-> "text", valid |-> TRUE, doc |-> [t |-> "emptyString"]]

IsEntry(x) == x.t = "entry"

HistoryItem(id, name, timestamp, payload, size) ==
  [t |-> "entry", id |-> id, name |-> name, timestamp |-> timestamp,
   payload |-> payload, size |-> size]

\* JSON.stringify(trimmed)
JSONstringifyItems(items) == TextOf(JArr(items))

\* JSON.parse(stored): the document, or a SyntaxError
JSONparseStored(stored) ==
  IF stored.valid /\ stored.doc.t # "emptyString"
  THEN [ok |-> TRUE, doc |-> stored.doc]
  ELSE [ok |-> FALSE, error |-> "SyntaxError"]

-----------------------------------------------------------------------------
(* items.sort((a, b) => b.timestamp - a.timestamp) *)

\* The comparator throws a TypeError when one of its arguments is null.
ComparatorThrows(items) ==
  Len(items) >= 2 /\ \E i \in 1..Len(items) : items[i].t = "null"

\* b.timestamp - a.timestamp > 0: b goes before a.  A missing timestamp
\* makes the difference NaN, which sort treats as 0.
GoesBefore(b, a) ==
  /\ IsEntry(a)
  /\ IsEntry(b)
  /\ b.timestamp - a.timestamp > 0

RECURSIVE InsertSorted(_, _)
InsertSorted(sorted, x) ==
  IF sorted = <<>> THEN <<x>>
  ELSE IF GoesBefore(x, sorted[Len(sorted)])
       THEN Append(InsertSorted(SubSeq(sorted, 1, Len(sorted) - 1), x),
                   sorted[Len(sorted)])
       ELSE Append(sorted, x)

RECURSIVE StableSortFrom(_, _, _)
StableSortFrom(items, i, acc) ==
  IF i > Len(items) THEN acc
  ELSE StableSortFrom(items, i + 1, InsertSorted(acc, items[i]))

SortUnsorted(items) == items

\* Array.prototype.sort is stable: equal timestamps keep their order.
SortNewestFirst(items) == StableSortFrom(items, 1, <<>>)

-----------------------------------------------------------------------------
(* getHistory *)

getHistory(stored, how) ==
  IF how = "noWindow" THEN <<>>
  ELSE IF how = "blocked" THEN <<>>               \* getItem throws: caught
  ELSE IF stored.kind = "absent" THEN <<>>        \* getItem returns null
  ELSE IF stored.valid /\ stored.doc.t = "emptyString" THEN <<>>  \* !stored
  ELSE LET parsed == JSONparseStored(stored) IN
       IF ~parsed.ok THEN <<>>                    \* SyntaxError: caught
       ELSE IF parsed.doc.t # "arr" THEN <<>>     \* items.sort is no function
       ELSE IF ComparatorThrows(parsed.doc.xs) THEN <<>>
       ELSE SortNewestFirst(parsed.doc.xs)


-----------------------------------------------------------------------------
(* addToHistory, removeFromHistory, clearHistory *)

\* What the encrypt tab hands to addToHistory: name, payload and size.
PayloadA ==
  [alg |-> "AES-GCM", kdf |-> "PBKDF2", salt |-> "c2FsdEE=", iv |-> "aXZB",
   iterations |-> 200000, ct |-> "Y3RB"]
PayloadB ==
  [alg |-> "AES-GCM", kdf |-> "PBKDF2", salt |-> "c2FsdEI=", iv |-> "aXZC",
   iterations |-> 200000, ct |-> "Y3RC"]

\* Each caller is a tab with its own file name and encryption result.
ItemOf(c) ==
  IF c = 1 THEN [name |-> "encrypted", payload |-> PayloadA, size |-> 11]
           ELSE [name |-> "Untitled", payload |-> PayloadB, size |-> 0]

\* history.unshift(newItem) without the slice
AddUntrimmed(history, newItem) == <<newItem>> \o history

\* history.push(newItem); history.slice(0, MAX_ITEMS)
AddPushed(history, newItem) ==
  SubSeq(history \o <<newItem>>, 1, Min(MAX_ITEMS, Len(history) + 1))

\* history.unshift(newItem); history.slice(0, MAX_ITEMS)
AddTrimmed(history, newItem) ==
  SubSeq(<<newItem>> \o history, 1, Min(MAX_ITEMS, Len(history) + 1))

\* A filter that drops the newest entry whatever the id.
FilterOutNewest(history, id) ==
  IF history = <<>> THEN <<>> ELSE Tail(history)

\* history.filter((item) => item.id !== id)
RECURSIVE FilterOut(_, _)
FilterOut(history, id) ==
  IF history = <<>> THEN <<>>
  ELSE IF history[1].id # id
       THEN <<history[1]>> \o FilterOut(Tail(history), id)
       ELSE FilterOut(Tail(history), id)

NoArg == [id |-> 0]

NotYet == [done |-> FALSE]

\* No input of parsePayload is in play.
ParseIdle ==
  /\ pObj = JNull
  /\ pForm = "none"
  /\ pIn = NotYet
  /\ pOut = NotYet

\* No encryption is in play.
CryptoIdle ==
  /\ browser = "firefox"
  /\ cPlain = [type |-> "string", text |-> <<>>]
  /\ cPass = <<>>
  /\ cOpts = [iterations |-> Undefined]
  /\ cEnv = NotYet
  /\ cTamper = "none"
  /\ cOut = NotYet

\* The encrypt tab has done nothing yet.
TabIdle ==
  /\ rng = 0
  /\ sResult = NotYet
  /\ sError = NotYet
  /\ sMade = <<>>
  /\ sLast = NotYet

\* No key has been derived, exported or imported.
KeyIdle ==
  /\ kKey = NotYet
  /\ kText = NotYet
  /\ kImported = NotYet
  /\ kOut = NotYet

\* The passphrase field is empty and has not been scored.
MeterIdle ==
  /\ wPwd = <<>>
  /\ wRes = NotYet
  /\ wPrev = NotYet

\* The generator has its default word count and has not been used.
GenIdle ==
  /\ gLength = 6
  /\ gOut = NotYet

\* The decrypt tab as it is mounted.
DecIdle ==
  /\ dInput = <<>>
  /\ dPass = <<>>
  /\ dKey = NotYet
  /\ dBusy = FALSE
  /\ dResult = NotYet
  /\ dError = NotYet
  /\ dFlight = NotYet
  /\ dImport = {}
  /\ dLast = NotYet
  /\ dHad = FALSE

PageIdle == GenIdle /\ DecIdle

OtherIdle == TabIdle /\ KeyIdle /\ MeterIdle /\ PageIdle

NonStoreIdle == ParseIdle /\ CryptoIdle /\ OtherIdle

\* The history store is not in play.
StoreIdle ==
  /\ ls = NoItem
  /\ medium = "ok"
  /\ clock = 0
  /\ nextId = 0
  /\ pc = [c \in Callers |-> "idle"]
  /\ hist = [c \in Callers |-> <<>>]
  /\ arg = [c \in Callers |-> NoArg]
  /\ outcome = [c \in Callers |-> "none"]
  /\ appended = <<>>
  /\ disturbed = 0
  /\ listed = NotYet

\* The new item of addToHistory: the caller's item with a fresh id
\* (crypto.randomUUID()) and the current time (Date.now()).
NewItem(c) ==
  HistoryItem(nextId + 1, ItemOf(c).name, clock, ItemOf(c).payload,
              ItemOf(c).size)

\* addToHistory up to its read of the store: getHistory().
AddRead(c, maxAppends) ==
  /\ pc[c] = "idle"
  /\ Len(appended) < maxAppends
  /\ hist' = [hist EXCEPT ![c] = getHistory(ls, medium)]
  /\ pc' = [pc EXCEPT ![c] = "addWrite"]
  /\ UNCHANGED <<ls, medium, clock, nextId, arg, outcome, appended, disturbed, listed>>
  /\ UNCHANGED nonStoreVars

\* addToHistory from the new item to localStorage.setItem returning.
AddWrite(c) ==
  /\ pc[c] = "addWrite"
  /\ ls' = JSONstringifyItems(AddTrimmed(hist[c], NewItem(c)))
  /\ nextId' = nextId + 1
  /\ appended' = Append(appended, nextId + 1)
  /\ outcome' = [outcome EXCEPT ![c] = "ok"]
  /\ pc' = [pc EXCEPT ![c] = "idle"]
  /\ hist' = [hist EXCEPT ![c] = <<>>]
  /\ UNCHANGED <<medium, clock, arg, disturbed, listed>>
  /\ UNCHANGED nonStoreVars

\* localStorage.setItem throws (the quota is used up): addToHistory throws
\* 'Could not save to history. Storage may be full.'
AddWriteFail(c) ==
  /\ pc[c] = "addWrite"
  /\ disturbed < MaxDisturb
  /\ disturbed' = disturbed + 1
  /\ outcome' = [outcome EXCEPT ![c] = "CouldNotSave"]
  /\ pc' = [pc EXCEPT ![c] = "idle"]
  /\ hist' = [hist EXCEPT ![c] = <<>>]
  /\ UNCHANGED <<ls, medium, clock, nextId, arg, appended,
                 listed>>
  /\ UNCHANGED nonStoreVars

\* The ids a caller may ask to remove: the newest and the oldest entry of the
\* store, and an id that no entry has.
RemovableIds ==
  LET h == getHistory(ls, medium) IN
  {0} \cup (IF h = <<>> THEN {} ELSE {h[1].id, h[Len(h)].id})

\* removeFromHistory up to its read of the store.
RemoveRead(c, id) ==
  /\ pc[c] = "idle"
  /\ disturbed < MaxDisturb
  /\ disturbed' = disturbed + 1
  /\ hist' = [hist EXCEPT ![c] = getHistory(ls, medium)]
  /\ arg' = [arg EXCEPT ![c] = [id |-> id]]
  /\ pc' = [pc EXCEPT ![c] = "removeWrite"]
  /\ UNCHANGED <<ls, medium, clock, nextId, outcome, appended,
                 listed>>
  /\ UNCHANGED nonStoreVars

\* removeFromHistory from the filter to localStorage.setItem returning, or
\* throwing into the catch block where there is no usable localStorage.
RemoveWrite(c) ==
  /\ pc[c] = "removeWrite"
  /\ ls' = IF medium = "ok"
           THEN JSONstringifyItems(FilterOut(hist[c], arg[c].id))
           ELSE ls
  /\ outcome' = [outcome EXCEPT ![c] = "ok"]
  /\ pc' = [pc EXCEPT ![c] = "idle"]
  /\ hist' = [hist EXCEPT ![c] = <<>>]
  /\ arg' = [arg EXCEPT ![c] = NoArg]
  /\ UNCHANGED <<medium, clock, nextId, appended, disturbed,
                 listed>>
  /\ UNCHANGED nonStoreVars

\* clearHistory: localStorage.removeItem(STORAGE_KEY)
Clear(c) ==
  /\ pc[c] = "idle"
  /\ disturbed < MaxDisturb
  /\ disturbed' = disturbed + 1
  /\ ls' = NoItem
  /\ outcome' = [outcome EXCEPT ![c] = "ok"]
  /\ UNCHANGED <<medium, clock, nextId, pc, hist, arg, appended, listed>>
  /\ UNCHANGED nonStoreVars

\* Time passes: Date.now() does not go back, and two calls may fall into the
\* same millisecond.
Tick ==
  /\ clock < MaxClock
  /\ clock' = clock + 1
  /\ UNCHANGED <<ls, medium, nextId, pc, hist, arg, outcome, appended, disturbed, listed>>
  /\ UNCHANGED nonStoreVars

\* The store after k appends of caller 1 at time 0, newest first.
PreFilled(k) ==
  [i \in 1..k |->
     HistoryItem(k - i + 1, ItemOf(1).name, 0, ItemOf(1).payload, ItemOf(1).size)]

StoreInit(k) ==
  /\ ls = IF k = 0 THEN NoItem ELSE JSONstringifyItems(PreFilled(k))
  /\ medium = "ok"
  /\ clock = 0
  /\ nextId = k
  /\ pc = [c \in Callers |-> "idle"]
  /\ hist = [c \in Callers |-> <<>>]
  /\ arg = [c \in Callers |-> NoArg]
  /\ outcome = [c \in Callers |-> "none"]
  /\ appended = <<>>
  /\ disturbed = 0
  /\ listed = NotYet
  /\ NonStoreIdle

-----------------------------------------------------------------------------
(* One caller appending to an empty store *)

AppendInit == StoreInit(0)

AppendNext ==
  \/ AddRead(1, MaxAppends)
  \/ AddWrite(1)
  \/ AddWriteFail(1)
  \/ Tick

SpecAppend == AppendInit /\ [][AppendNext]_vars

(* Several callers (tabs) sharing the store, which starts empty or one entry
   short of the cap; each access of localStorage is one step *)

NearlyFull == MAX_ITEMS - 1

SharedInit == \E k \in {0, NearlyFull} : StoreInit(k)

SharedNext ==
  \/ \E c \in Callers : AddRead(c, MaxSharedAppends)
  \/ \E c \in Callers : AddWrite(c)
  \/ \E c \in Callers : AddWriteFail(c)
  \/ \E c \in Callers : \E id \in RemovableIds : RemoveRead(c, id)
  \/ \E c \in Callers : RemoveWrite(c)
  \/ \E c \in Callers : Clear(c)
  \/ Tick

SpecShared == SharedInit /\ [][SharedNext]_vars

-----------------------------------------------------------------------------
(* getHistory as a function of what the backing medium holds *)

\* Arrays of n entries in any order of their timestamps.
EntryArrays(n) ==
  { [i \in 1..n |-> HistoryItem(i, ItemOf(1).name, ts[i], ItemOf(1).payload,
                                ItemOf(1).size)] :
      ts \in [1..n -> 0..MaxClock] }

\* Arrays of n JSON values none of which is an entry.
OtherArrays(n) == [1..n -> {JNum(1), JNull}]

StoredPool ==
  {NoItem, EmptyText, Garbage}
    \cup {TextOf(d) : d \in {JNull, JNum(5), JStr(<<97, 98, 99>>), JObject(<<>>)}}
    \cup {TextOf(JArr(xs)) : xs \in UNION {EntryArrays(n) : n \in 0..MaxStored}}
    \cup {TextOf(JArr(xs)) : xs \in UNION {OtherArrays(n) : n \in 1..MaxStored}}

Mediums == {"ok", "noWindow", "blocked"}

ReadInit ==
  /\ ls \in StoredPool
  /\ medium \in Mediums
  /\ clock = 0
  /\ nextId = 0
  /\ pc = [c \in Callers |-> "idle"]
  /\ hist = [c \in Callers |-> <<>>]
  /\ arg = [c \in Callers |-> NoArg]
  /\ outcome = [c \in Callers |-> "none"]
  /\ appended = <<>>
  /\ disturbed = 0
  /\ listed = NotYet
  /\ NonStoreIdle

\* A caller lists the history: getHistory()
List ==
  /\ ~listed.done
  /\ listed' = [done |-> TRUE, items |-> getHistory(ls, medium)]
  /\ UNCHANGED <<ls, medium, clock, nextId, pc, hist, arg, outcome, appended,
                 disturbed>>
  /\ UNCHANGED nonStoreVars

ReadNext == List

SpecRead == ReadInit /\ [][ReadNext]_vars

-----------------------------------------------------------------------------
(* Texts: sequences of character codes *)

\* The printable ASCII characters 32..95 and 97..126
AsciiLow ==
  " !\"#$%&'()*+,-./0123456789:;<=>?@ABCDEFGHIJKLMNOPQRSTUVWXYZ[\\]^_"
AsciiHigh == "abcdefghijklmnopqrstuvwxyz{|}~"

\* The code of a printable ASCII character, given as a one-character string.
Ord(ch) ==
  IF \E i \in 1..Len(AsciiLow) : SubSeq(AsciiLow, i, i) = ch
  THEN 31 + (CHOOSE i \in 1..Len(AsciiLow) : SubSeq(AsciiLow, i, i) = ch)
  ELSE 96 + (CHOOSE i \in 1..Len(AsciiHigh) : SubSeq(AsciiHigh, i, i) = ch)

\* The character codes of a string literal.
Codes(str) == [i \in 1..Len(str) |-> Ord(SubSeq(str, i, i))]

IsDigit(c) == c >= 48 /\ c <= 57

\* ASCII whitespace: tab, line feed, form feed, carriage return, space
IsAsciiWhitespace(c) == c \in {9, 10, 12, 13, 32}

-----------------------------------------------------------------------------
(* btoa and atob *)

InvalidCharacterError ==
  [name |-> "InvalidCharacterError", message |-> "The string contains invalid characters."]

\* The character of a 6-bit value in the Base64 alphabet A-Z a-z 0-9 + /
B64Char(v) ==
  IF v < 26 THEN 65 + v
  ELSE IF v < 52 THEN 97 + (v - 26)
  ELSE IF v < 62 THEN 48 + (v - 52)
  ELSE IF v = 62 THEN 43
  ELSE 47

\* The 6-bit value of a character, or -1 outside the alphabet
B64Value(c) ==
  IF c >= 65 /\ c <= 90 THEN c - 65
  ELSE IF c >= 97 /\ c <= 122 THEN c - 97 + 26
  ELSE IF IsDigit(c) THEN c - 48 + 52
  ELSE IF c = 43 THEN 62
  ELSE IF c = 47 THEN 63
  ELSE -1

\* Three bytes give four characters; a last group of one or two bytes is
\* padded with =.
B64Encode(bytes) ==
  LET n == Len(bytes)
      b(i) == IF i <= n THEN bytes[i] ELSE 0
      char(k) ==
        LET base == 3 * ((k - 1) \div 4)
            r == (k - 1) % 4
        IN IF r = 0 THEN B64Char(b(base + 1) \div 4)
           ELSE IF r = 1
             THEN B64Char((b(base + 1) % 4) * 16 + b(base + 2) \div 16)
           ELSE IF r = 2
             THEN (IF base + 2 > n THEN 61
                   ELSE B64Char((b(base + 2) % 16) * 4 + b(base + 3) \div 64))
           ELSE (IF base + 3 > n THEN 61 ELSE B64Char(b(base + 3) % 64))
  IN [k \in 1..(4 * ((n + 2) \div 3)) |-> char(k)]

\* btoa(binary): throws when a character is above U+00FF
btoa(binary) ==
  IF \E i \in 1..Len(binary) : binary[i] > 255
  THEN [ok |-> FALSE, error |-> InvalidCharacterError]
  ELSE [ok |-> TRUE, text |-> B64Encode(binary)]

StripWhitespace(text) == SelectSeq(text, LAMBDA c : ~IsAsciiWhitespace(c))

\* With a length divisible by 4, one or two trailing = are dropped.
StripPadding(text) ==
  LET n == Len(text) IN
  IF n % 4 # 0 \/ n = 0 THEN text
  ELSE IF text[n] = 61 /\ text[n - 1] = 61 THEN SubSeq(text, 1, n - 2)
  ELSE IF text[n] = 61 THEN SubSeq(text, 1, n - 1)
  ELSE text

\* Groups of four characters give three bytes; two left-over characters give
\* one byte and three give two, the remaining bits being dropped.
B64Decode(text) ==
  LET n == Len(text)
      v(i) == B64Value(text[i])
      byte(k) ==
        LET base == 4 * ((k - 1) \div 3)
            r == (k - 1) % 3
        IN IF r = 0 THEN v(base + 1) * 4 + v(base + 2) \div 16
           ELSE IF r = 1 THEN (v(base + 2) % 16) * 16 + v(base + 3) \div 4
           ELSE (v(base + 3) % 4) * 64 + v(base + 4)
      left == IF n % 4 = 0 THEN 0 ELSE (n % 4) - 1
  IN [k \in 1..(3 * (n \div 4) + left) |-> byte(k)]

\* atob(text): the forgiving Base64 decoding of the HTML standard
atob(text) ==
  LET data == StripPadding(StripWhitespace(text)) IN
  IF Len(data) % 4 = 1 \/ \E i \in 1..Len(data) : B64Value(data[i]) < 0
  THEN [ok |-> FALSE, error |-> InvalidCharacterError]
  ELSE [ok |-> TRUE, binary |-> B64Decode(data)]

\* arrayBufferToBase64: the bytes as a binary string, then btoa
arrayBufferToBase64(bytes) == btoa(bytes).text

\* base64ToArrayBuffer: atob, then the character codes as bytes
base64ToArrayBuffer(base64) ==
  LET r == atob(base64) IN
  IF r.ok THEN [ok |-> TRUE, bytes |-> r.binary]
  ELSE [ok |-> FALSE, error |-> r.error]

-----------------------------------------------------------------------------
(* JSON.stringify and JSON.parse on texts.  Numbers are integers; the texts
   of the model hold no fraction, exponent or \u escape. *)

RECURSIVE Digits(_)
Digits(n) ==
  IF n < 10 THEN <<48 + n>> ELSE Append(Digits(n \div 10), 48 + (n % 10))

NumberText(n) == IF n < 0 THEN <<45>> \o Digits(0 - n) ELSE Digits(n)

RECURSIVE EscapedFrom(_, _)
EscapedFrom(str, i) ==
  IF i > Len(str) THEN <<>>
  ELSE (IF str[i] = 34 THEN <<92, 34>>
        ELSE IF str[i] = 92 THEN <<92, 92>>
        ELSE IF str[i] = 10 THEN <<92, 110>>
        ELSE IF str[i] = 9 THEN <<92, 116>>
        ELSE <<str[i]>>) \o EscapedFrom(str, i + 1)

\* A string without quote, backslash, line feed or tab stays as it is.
Escaped(str) ==
  IF \E i \in 1..Len(str) : str[i] \in {34, 92, 10, 9} THEN EscapedFrom(str, 1)
  ELSE str

Quoted(str) == <<34>> \o Escaped(str) \o <<34>>

RECURSIVE JSONstringify(_)
RECURSIVE StringifyMembers(_, _)
RECURSIVE StringifyElements(_, _)
JSONstringify(v) ==
  IF v.t = "null" THEN <<110, 117, 108, 108>>
  ELSE IF v.t = "bool" THEN
    (IF v.b THEN <<116, 114, 117, 101>> ELSE <<102, 97, 108, 115, 101>>)
  ELSE IF v.t = "num" THEN
    NumberText(v.n) \o (IF "tenths" \in DOMAIN v THEN <<46, 48 + v.tenths>>
                                                  ELSE <<>>)
  ELSE IF v.t = "str" THEN Quoted(v.s)
  ELSE IF v.t = "obj" THEN <<123>> \o StringifyMembers(v.members, 1) \o <<125>>
  ELSE <<91>> \o StringifyElements(v.xs, 1) \o <<93>>

StringifyMembers(members, i) ==
  IF i > Len(members) THEN <<>>
  ELSE (IF i > 1 THEN <<44>> ELSE <<>>)
         \o Quoted(members[i][1]) \o <<58>> \o JSONstringify(members[i][2])
         \o StringifyMembers(members, i + 1)

StringifyElements(xs, i) ==
  IF i > Len(xs) THEN <<>>
  ELSE (IF i > 1 THEN <<44>> ELSE <<>>) \o JSONstringify(xs[i])
         \o StringifyElements(xs, i + 1)

SyntaxError == [name |-> "SyntaxError", message |-> "Unexpected token in JSON"]


RECURSIVE SkipWhitespace(_, _)
SkipWhitespace(text, i) ==
  IF i <= Len(text) /\ text[i] \in {9, 10, 13, 32}
  THEN SkipWhitespace(text, i + 1) ELSE i

NoParse == [ok |-> FALSE]

\* The characters of a string from position i, after its opening quote,
\* one at a time.
RECURSIVE ParseEscapedString(_, _, _)
ParseEscapedString(text, i, acc) ==
  IF i > Len(text) THEN NoParse
  ELSE IF text[i] = 34 THEN [ok |-> TRUE, val |-> JStr(acc), next |-> i + 1]
  ELSE IF text[i] < 32 THEN NoParse
  ELSE IF text[i] = 92 THEN
    (IF i + 1 > Len(text) THEN NoParse
     ELSE IF text[i + 1] \in {34, 92, 47}
          THEN ParseEscapedString(text, i + 2, Append(acc, text[i + 1]))
     ELSE IF text[i + 1] = 110
          THEN ParseEscapedString(text, i + 2, Append(acc, 10))
     ELSE IF text[i + 1] = 116
          THEN ParseEscapedString(text, i + 2, Append(acc, 9))
     ELSE IF text[i + 1] = 114
          THEN ParseEscapedString(text, i + 2, Append(acc, 13))
     ELSE NoParse)
  ELSE ParseEscapedString(text, i + 1, Append(acc, text[i]))

\* The characters of a string from position i, after its opening quote: up
\* to the next quote when no backslash or control character comes before it.
ParseString(text, i, acc) ==
  LET special == {j \in i..Len(text) : text[j] = 34 \/ text[j] = 92 \/ text[j] < 32}
      first == CHOOSE j \in special : \A k \in special : j <= k
  IN IF special = {} THEN NoParse
     ELSE IF text[first] = 34
       THEN [ok |-> TRUE, val |-> JStr(acc \o SubSeq(text, i, first - 1)),
             next |-> first + 1]
     ELSE ParseEscapedString(text, first, acc \o SubSeq(text, i, first - 1))

RECURSIVE ParseDigits(_, _, _)
ParseDigits(text, i, n) ==
  IF i <= Len(text) /\ IsDigit(text[i])
  THEN ParseDigits(text, i + 1, n * 10 + (text[i] - 48))
  ELSE [n |-> n, next |-> i]

\* -? ( 0 | [1-9][0-9]* )
ParseNumber(text, i) ==
  LET neg == text[i] = 45
      j == IF neg THEN i + 1 ELSE i
  IN IF j > Len(text) \/ ~IsDigit(text[j]) THEN NoParse
     ELSE LET d == IF text[j] = 48 THEN [n |-> 0, next |-> j + 1]
                   ELSE ParseDigits(text, j, 0)
          IN [ok |-> TRUE, val |-> JNum(IF neg THEN 0 - d.n ELSE d.n),
              next |-> d.next]

StartsWith(text, i, word) ==
  /\ i + Len(word) - 1 <= Len(text)
  /\ SubSeq(text, i, i + Len(word) - 1) = word

\* A later member with the same key replaces the value of the earlier one.
SetMember(members, key, val) ==
  IF \E k \in 1..Len(members) : members[k][1] = key
  THEN [k \in 1..Len(members) |->
          IF members[k][1] = key THEN <<key, val>> ELSE members[k]]
  ELSE Append(members, <<key, val>>)

RECURSIVE ParseValue(_, _)
RECURSIVE ParseMembers(_, _, _)
RECURSIVE ParseElements(_, _, _)
ParseValue(text, i0) ==
  LET i == SkipWhitespace(text, i0) IN
  IF i > Len(text) THEN NoParse
  ELSE IF text[i] = 123 THEN
    (LET j == SkipWhitespace(text, i + 1) IN
     IF j <= Len(text) /\ text[j] = 125
     THEN [ok |-> TRUE, val |-> JObject(<<>>), next |-> j + 1]
     ELSE ParseMembers(text, j, <<>>))
  ELSE IF text[i] = 91 THEN
    (LET j == SkipWhitespace(text, i + 1) IN
     IF j <= Len(text) /\ text[j] = 93
     THEN [ok |-> TRUE, val |-> JArr(<<>>), next |-> j + 1]
     ELSE ParseElements(text, j, <<>>))
  ELSE IF text[i] = 34 THEN ParseString(text, i + 1, <<>>)
  ELSE IF text[i] = 45 \/ IsDigit(text[i]) THEN ParseNumber(text, i)
  ELSE IF StartsWith(text, i, <<110, 117, 108, 108>>)
    THEN [ok |-> TRUE, val |-> JNull, next |-> i + 4]
  ELSE IF StartsWith(text, i, <<116, 114, 117, 101>>)
    THEN [ok |-> TRUE, val |-> JBool(TRUE), next |-> i + 4]
  ELSE IF StartsWith(text, i, <<102, 97, 108, 115, 101>>)
    THEN [ok |-> TRUE, val |-> JBool(FALSE), next |-> i + 5]
  ELSE NoParse

\* "key" : value ( , "key" : value )* }
ParseMembers(text, i, members) ==
  IF i > Len(text) \/ text[i] # 34 THEN NoParse
  ELSE LET key == ParseString(text, i + 1, <<>>) IN
    IF ~key.ok THEN NoParse
    ELSE LET c == SkipWhitespace(text, key.next) IN
      IF c > Len(text) \/ text[c] # 58 THEN NoParse
      ELSE LET v == ParseValue(text, c + 1) IN
        IF ~v.ok THEN NoParse
        ELSE LET e == SkipWhitespace(text, v.next)
                 ms == SetMember(members, key.val.s, v.val)
             IN IF e > Len(text) THEN NoParse
                ELSE IF text[e] = 125
                  THEN [ok |-> TRUE, val |-> JObject(ms), next |-> e + 1]
                ELSE IF text[e] = 44
                  THEN ParseMembers(text, SkipWhitespace(text, e + 1), ms)
                ELSE NoParse

\* value ( , value )* ]
ParseElements(text, i, xs) ==
  LET v == ParseValue(text, i) IN
  IF ~v.ok THEN NoParse
  ELSE LET e == SkipWhitespace(text, v.next) IN
    IF e > Len(text) THEN NoParse
    ELSE IF text[e] = 93
      THEN [ok |-> TRUE, val |-> JArr(Append(xs, v.val)), next |-> e + 1]
    ELSE IF text[e] = 44 THEN ParseElements(text, e + 1, Append(xs, v.val))
    ELSE NoParse

\* JSON.parse(text): the value, or a SyntaxError
JSONparse(text) ==
  LET v == ParseValue(text, 1) IN
  IF v.ok /\ SkipWhitespace(text, v.next) > Len(text)
  THEN [ok |-> TRUE, val |-> v.val]
  ELSE [ok |-> FALSE, error |-> SyntaxError]

-----------------------------------------------------------------------------
(* parsePayload and encodePayload *)

K_alg == Codes("alg")
K_kdf == Codes("kdf")
K_salt == Codes("salt")
K_iv == Codes("iv")
K_iterations == Codes("iterations")
K_ct == Codes("ct")
AES_GCM == Codes("AES-GCM")
PBKDF2 == Codes("PBKDF2")

RequiredFields == <<K_alg, K_kdf, K_salt, K_iv, K_iterations, K_ct>>

HasMember(v, key) ==
  v.t = "obj" /\ \E k \in 1..Len(v.members) : v.members[k][1] = key

\* v.key for a value v that is neither null nor undefined: the member of an
\* object, undefined for a missing member and for the six names on a
\* number, a string, a boolean or an array.
Get(v, key) ==
  IF HasMember(v, key)
  THEN v.members[CHOOSE k \in 1..Len(v.members) : v.members[k][1] = key][2]
  ELSE Undefined

\* !v
Falsy(v) ==
  \/ v.t \in {"undefined", "null"}
  \/ v.t = "bool" /\ ~v.b
  \/ v.t = "num" /\ v.n = 0
  \/ v.t = "str" /\ v.s = <<>>

\* The object literal encrypt returns.
EncryptionPayload(alg, kdf, salt, iv, iterations, ct) ==
  JObject(<< <<K_alg, alg>>, <<K_kdf, kdf>>, <<K_salt, salt>>, <<K_iv, iv>>,
             <<K_iterations, iterations>>, <<K_ct, ct>> >>)

InvalidFormat ==
  [name |-> "Error",
   message |-> "Invalid payload format. Must be valid JSON or Base64-encoded JSON."]
MissingFields ==
  [name |-> "Error",
   message |-> "Payload missing required fields: alg, kdf, salt, iv, iterations, ct"]
UnsupportedAlgorithm(alg) ==
  [name |-> "Error",
   message |-> "Unsupported algorithm: ${payload.alg}. Only AES-GCM is supported.",
   value |-> alg]
UnsupportedKDF(kdf) ==
  [name |-> "Error",
   message |-> "Unsupported KDF: ${payload.kdf}. Only PBKDF2 is supported.",
   value |-> kdf]
TypeErrorNull ==
  [name |-> "TypeError", message |-> "Cannot read properties of null"]

StringInput(text) == [type |-> "string", text |-> text]
ObjectInput(val) == [type |-> "object", val |-> val]

\* The try block without the second attempt: Base64-wrapped JSON only.
ReadInputWrappedOnly(input) ==
  IF input.type = "string" THEN
    LET decoded == atob(input.text)
        wrapped == IF decoded.ok THEN JSONparse(decoded.binary) ELSE NoParse
    IN IF wrapped.ok
       THEN [ok |-> TRUE, payload |-> wrapped.val, via |-> "base64"]
       ELSE [ok |-> FALSE, error |-> InvalidFormat]
  ELSE [ok |-> TRUE, payload |-> input.val, via |-> "object"]

\* The try block of parsePayload: atob and JSON.parse first, JSON.parse of the
\* input itself when either throws; an object is taken as it is.
ReadInput(input) ==
  IF input.type = "string" THEN
    LET decoded == atob(input.text)
        wrapped == IF decoded.ok THEN JSONparse(decoded.binary) ELSE NoParse
    IN IF wrapped.ok
       THEN [ok |-> TRUE, payload |-> wrapped.val, via |-> "base64"]
       ELSE LET raw == JSONparse(input.text) IN
            IF raw.ok
            THEN [ok |-> TRUE, payload |-> raw.val, via |-> "raw"]
            ELSE [ok |-> FALSE, error |-> InvalidFormat]
  ELSE [ok |-> TRUE, payload |-> input.val, via |-> "object"]

\* The checks without the comparison of alg and kdf.
ValidateFieldsOnly(read) ==
  LET payload == read.payload IN
  IF payload.t \in {"null", "undefined"}
    THEN [ok |-> FALSE, error |-> TypeErrorNull]
  ELSE IF \E k \in 1..Len(RequiredFields) : Falsy(Get(payload, RequiredFields[k]))
    THEN [ok |-> FALSE, error |-> MissingFields]
  ELSE [ok |-> TRUE, payload |-> payload, via |-> read.via]

\* The checks of parsePayload on the value read.
Validate(read) ==
  LET payload == read.payload IN
  IF payload.t \in {"null", "undefined"}
    THEN [ok |-> FALSE, error |-> TypeErrorNull]
  ELSE IF \E k \in 1..Len(RequiredFields) : Falsy(Get(payload, RequiredFields[k]))
    THEN [ok |-> FALSE, error |-> MissingFields]
  ELSE IF Get(payload, K_alg) # JStr(AES_GCM)
    THEN [ok |-> FALSE, error |-> UnsupportedAlgorithm(Get(payload, K_alg))]
  ELSE IF Get(payload, K_kdf) # JStr(PBKDF2)
    THEN [ok |-> FALSE, error |-> UnsupportedKDF(Get(payload, K_kdf))]
  ELSE [ok |-> TRUE, payload |-> payload, via |-> read.via]

parsePayload(input) ==
  LET read == ReadInput(input) IN
  IF read.ok THEN Validate(read) ELSE read

\* encodePayload: btoa(JSON.stringify(payload))
encodePayload(payload) == btoa(JSONstringify(payload))

\* JSON.stringify(payload, null, 2) of an object whose members are numbers,
\* strings, booleans or null: the text of a downloaded .enc file
RECURSIVE IndentedMembers(_, _)
IndentedMembers(members, i) ==
  IF i > Len(members) THEN <<>>
  ELSE (IF i > 1 THEN <<44>> ELSE <<>>) \o <<10, 32, 32>>
         \o Quoted(members[i][1]) \o <<58, 32>> \o JSONstringify(members[i][2])
         \o IndentedMembers(members, i + 1)

JSONstringifyIndented(v) ==
  IF v.t = "obj" /\ v.members # <<>>
  THEN <<123>> \o IndentedMembers(v.members, 1) \o <<10, 125>>
  ELSE JSONstringify(v)

-----------------------------------------------------------------------------
(* Texts handed to parsePayload: what the application writes for a payload
   (EncryptedOutput) and what a user may paste instead (DecryptTab) *)

Salt16 == arrayBufferToBase64([i \in 1..16 |-> 11 * i])
Iv12 == arrayBufferToBase64([i \in 1..12 |-> 255 - 7 * i])
Ct17 == arrayBufferToBase64([i \in 1..17 |-> (37 * i) % 256])
\* An object with the members that are given, in the order encrypt writes them.
ObjectOf(alg, kdf, salt, iv, iterations, ct) ==
  JObject(SelectSeq(EncryptionPayload(alg, kdf, salt, iv, iterations, ct).members,
                    LAMBDA member : member[2] # Undefined))

\* Objects with members missing, empty, unsupported, undecodable, negative
\* or of the wrong type, and the envelopes among them.
ObjectPool ==
  {ObjectOf(alg, kdf, salt, iv, iterations, ct) :
     alg \in {Undefined, JStr(<<>>), JStr(AES_GCM), JStr(Codes("DES"))},
     kdf \in {Undefined, JStr(PBKDF2), JStr(Codes("scrypt"))},
     salt \in {Undefined, JStr(Salt16), JStr(Codes("!!"))},
     iv \in {Undefined, JStr(Iv12)},
     iterations \in {Undefined, JNum(0), JNum(0 - 1), JNum(1), JNum(200000),
                     JStr(Codes("abc"))},
     ct \in {Undefined, JStr(Ct17)}}

\* JSON values that are not objects.
ScalarPool ==
  {JNull, JNum(1234), JBool(TRUE), JStr(Codes("hello")), JArr(<<>>)}

\* Texts that are not the JSON text of a value of the pools.
PastedTexts ==
  {<<>>, Codes("@@"), Codes("aGk="), Codes("MQ=="), Codes("{\"alg\":"),
   Codes("AES-GCM")}

ParseInit ==
  /\ pObj \in ObjectPool \cup ScalarPool
  /\ pForm = "none"
  /\ pIn = NotYet
  /\ pOut = NotYet
  /\ StoreIdle
  /\ CryptoIdle
  /\ OtherIdle

\* EncryptedOutput shows encodePayload(payload); the user pastes it.
EncodeWrapped ==
  /\ pForm = "none"
  /\ encodePayload(pObj).ok
  /\ pForm' = "wrapped"
  /\ pIn' = [done |-> TRUE, input |-> StringInput(encodePayload(pObj).text)]
  /\ UNCHANGED <<pObj, pOut, nonParseVars>>

\* The JSON text of the payload as JSON.stringify(payload) writes it.
WriteRaw ==
  /\ pForm = "none"
  /\ pForm' = "raw"
  /\ pIn' = [done |-> TRUE, input |-> StringInput(JSONstringify(pObj))]
  /\ UNCHANGED <<pObj, pOut, nonParseVars>>

\* The downloaded file: JSON.stringify(payload, null, 2).
WriteIndented ==
  /\ pForm = "none"
  /\ pObj.t = "obj"
  /\ pForm' = "indented"
  /\ pIn' = [done |-> TRUE, input |-> StringInput(JSONstringifyIndented(pObj))]
  /\ UNCHANGED <<pObj, pOut, nonParseVars>>

\* A caller hands the object itself to parsePayload.
PassObject ==
  /\ pForm = "none"
  /\ pObj.t \in {"obj", "arr"}
  /\ pForm' = "object"
  /\ pIn' = [done |-> TRUE, input |-> ObjectInput(pObj)]
  /\ UNCHANGED <<pObj, pOut, nonParseVars>>

\* The user pastes some other text.
Paste(text) ==
  /\ pForm = "none"
  /\ pForm' = "pasted"
  /\ pObj' = Undefined
  /\ pIn' = [done |-> TRUE, input |-> StringInput(text)]
  /\ UNCHANGED <<pOut, nonParseVars>>

\* handleDecrypt calls parsePayload on the input.
Parse ==
  /\ pIn.done
  /\ ~pOut.done
  /\ pOut' = [done |-> TRUE, res |-> parsePayload(pIn.input)]
  /\ UNCHANGED <<pObj, pForm, pIn, nonParseVars>>

ParseNext ==
  \/ EncodeWrapped
  \/ WriteRaw
  \/ WriteIndented
  \/ PassObject
  \/ \E text \in PastedTexts : Paste(text)
  \/ Parse

SpecParse == ParseInit /\ [][ParseNext]_vars

-----------------------------------------------------------------------------
(* TextEncoder and TextDecoder.  A string is a sequence of UTF-16 code units,
   a buffer a sequence of bytes. *)

REPLACEMENT == 65533

IsHighSurrogate(u) == u >= 55296 /\ u <= 56319
IsLowSurrogate(u) == u >= 56320 /\ u <= 57343

\* The UTF-8 bytes of a scalar value.
Utf8Bytes(cp) ==
  IF cp < 128 THEN <<cp>>
  ELSE IF cp < 2048 THEN <<192 + (cp \div 64), 128 + (cp % 64)>>
  ELSE IF cp < 65536
    THEN <<224 + (cp \div 4096), 128 + ((cp \div 64) % 64), 128 + (cp % 64)>>
  ELSE <<240 + (cp \div 262144), 128 + ((cp \div 4096) % 64),
         128 + ((cp \div 64) % 64), 128 + (cp % 64)>>

\* encode(): a surrogate pair is one scalar value, a lone surrogate becomes
\* U+FFFD.
RECURSIVE TextEncodeFrom(_, _)
TextEncodeFrom(units, i) ==
  IF i > Len(units) THEN <<>>
  ELSE IF /\ IsHighSurrogate(units[i])
          /\ i < Len(units)
          /\ IsLowSurrogate(units[i + 1])
    THEN Utf8Bytes(65536 + (units[i] - 55296) * 1024 + (units[i + 1] - 56320))
           \o TextEncodeFrom(units, i + 2)
  ELSE IF IsHighSurrogate(units[i]) \/ IsLowSurrogate(units[i])
    THEN Utf8Bytes(REPLACEMENT) \o TextEncodeFrom(units, i + 1)
  ELSE Utf8Bytes(units[i]) \o TextEncodeFrom(units, i + 1)

TextEncode(units) == TextEncodeFrom(units, 1)

\* The code units of a scalar value.
Utf16Units(cp) ==
  IF cp < 65536 THEN <<cp>>
  ELSE <<55296 + ((cp - 65536) \div 1024), 56320 + ((cp - 65536) % 1024)>>

IsContinuation(bytes, i, lo, hi) ==
  i <= Len(bytes) /\ bytes[i] >= lo /\ bytes[i] <= hi

\* The UTF-8 decoder: every maximal ill-formed part becomes one U+FFFD and
\* decoding goes on at the byte that ended it.
RECURSIVE Utf8DecodeFrom(_, _)
Utf8DecodeFrom(bytes, i) ==
  IF i > Len(bytes) THEN <<>>
  ELSE
    LET b == bytes[i]
        lo == IF b = 224 THEN 160 ELSE IF b = 240 THEN 144 ELSE 128
        hi == IF b = 237 THEN 159 ELSE IF b = 244 THEN 143 ELSE 191
        needed == IF b >= 194 /\ b <= 223 THEN 1
                  ELSE IF b >= 224 /\ b <= 239 THEN 2
                  ELSE IF b >= 240 /\ b <= 244 THEN 3
                  ELSE 0
        got == IF needed = 0 \/ ~IsContinuation(bytes, i + 1, lo, hi) THEN 0
               ELSE IF needed = 1 \/ ~IsContinuation(bytes, i + 2, 128, 191)
                 THEN 1
               ELSE IF needed = 2 \/ ~IsContinuation(bytes, i + 3, 128, 191)
                 THEN 2
               ELSE 3
        lead == IF needed = 1 THEN b - 192
                ELSE IF needed = 2 THEN b - 224 ELSE b - 240
        cp == IF needed = 1 THEN lead * 64 + (bytes[i + 1] - 128)
              ELSE IF needed = 2
                THEN lead * 4096 + (bytes[i + 1] - 128) * 64
                       + (bytes[i + 2] - 128)
              ELSE lead * 262144 + (bytes[i + 1] - 128) * 4096
                     + (bytes[i + 2] - 128) * 64 + (bytes[i + 3] - 128)
    IN IF b < 128 THEN <<b>> \o Utf8DecodeFrom(bytes, i + 1)
       ELSE IF needed > 0 /\ got = needed
         THEN Utf16Units(cp) \o Utf8DecodeFrom(bytes, i + 1 + needed)
       ELSE <<REPLACEMENT>> \o Utf8DecodeFrom(bytes, i + 1 + got)

\* decode(): a leading byte order mark EF BB BF is dropped.
TextDecode(bytes) ==
  IF Len(bytes) >= 3 /\ SubSeq(bytes, 1, 3) = <<239, 187, 191>>
  THEN Utf8DecodeFrom(bytes, 4)
  ELSE Utf8DecodeFrom(bytes, 1)

-----------------------------------------------------------------------------
(* SubtleCrypto.  PBKDF2-HMAC-SHA-256 and AES-256-GCM are modelled by a
   mixing function over bytes: the derived key is a function of passphrase,
   salt and iteration count, the ciphertext is the plaintext XOR a key
   stream of key and iv, followed by a 16-byte tag of key, iv and ciphertext. *)

MaxSeeds == 2

Mix(h, b) == (h * 31 + b + 1) % 65521

RECURSIVE Absorb(_, _, _)
Absorb(h, bytes, i) ==
  IF i > Len(bytes) THEN h ELSE Absorb(Mix(h, bytes[i]), bytes, i + 1)

BlockLen == 8

\* The bytes are absorbed block by block, then the blocks' digests.
Digest(bytes) ==
  LET n == Len(bytes)
      block(k) == SubSeq(bytes, BlockLen * (k - 1) + 1, Min(BlockLen * k, n))
  IN Absorb(7, [k \in 1..((n + BlockLen - 1) \div BlockLen) |->
                  Absorb(k, block(k), 1)], 1)

\* n bytes of output; the first two hold the digest itself.
Expand(h, n) ==
  [i \in 1..n |-> IF i = 1 THEN h \div 256
                  ELSE IF i = 2 THEN h % 256
                  ELSE (h * i + i * i) % 256]

Bit(a, k) == (a \div (2 ^ k)) % 2

Xor(a, b) ==
  ((Bit(a, 0) + Bit(b, 0)) % 2) + 2 * ((Bit(a, 1) + Bit(b, 1)) % 2)
  + 4 * ((Bit(a, 2) + Bit(b, 2)) % 2) + 8 * ((Bit(a, 3) + Bit(b, 3)) % 2)
  + 16 * ((Bit(a, 4) + Bit(b, 4)) % 2) + 32 * ((Bit(a, 5) + Bit(b, 5)) % 2)
  + 64 * ((Bit(a, 6) + Bit(b, 6)) % 2) + 128 * ((Bit(a, 7) + Bit(b, 7)) % 2)

\* The DOMException a failed SubtleCrypto operation rejects with.  Its
\* message is the engine's.
OperationError ==
  [name |-> "OperationError",
   message |-> IF browser = "firefox"
               THEN "The operation failed for an operation-specific reason"
               ELSE ""]

\* generateSalt(16) and generateIV(): what crypto.getRandomValues may give
Salts == {[i \in 1..16 |-> (s * 97 + i * 29) % 256] : s \in 1..MaxSeeds}
IVs == {[i \in 1..12 |-> (s * 53 + i * 41) % 256] : s \in 1..MaxSeeds}

\* PBKDF2 with SHA-256 over the passphrase, the salt and the count
Pbkdf2(passphrase, salt, iterations) ==
  Expand(Digest(TextEncode(passphrase) \o <<256>> \o salt
                  \o <<256>> \o NumberText(iterations)), 32)

\* deriveKey(passphrase, salt, iterations): the 256-bit AES-GCM key
deriveKey(passphrase, salt, iterations) ==
  IF iterations <= 0 THEN [ok |-> FALSE, error |-> OperationError]
  ELSE [ok |-> TRUE, key |-> Pbkdf2(passphrase, salt, iterations)]

KeyStream(key, iv, i) == Mix(Mix(Digest(key \o <<256>> \o iv), i), 0) % 256

Tag(key, iv, ct) == Expand(Digest(key \o <<256>> \o iv \o <<256>> \o ct), 16)

\* crypto.subtle.encrypt({name: 'AES-GCM', iv}, key, data)
AesGcmEncrypt(key, iv, data) ==
  LET ct == [i \in 1..Len(data) |-> Xor(data[i], KeyStream(key, iv, i))]
  IN ct \o Tag(key, iv, ct)

\* Decryption that hands out the data whatever the tag.
AesGcmDecryptUnverified(key, iv, data) ==
  IF Len(data) < 16 THEN [ok |-> FALSE, error |-> OperationError]
  ELSE [ok |-> TRUE,
        data |-> [i \in 1..(Len(data) - 16) |->
                    Xor(data[i], KeyStream(key, iv, i))]]

\* crypto.subtle.decrypt({name: 'AES-GCM', iv}, key, data)
AesGcmDecrypt(key, iv, data) ==
  IF Len(data) < 16 THEN [ok |-> FALSE, error |-> OperationError]
  ELSE LET ct == SubSeq(data, 1, Len(data) - 16)
           tag == SubSeq(data, Len(data) - 15, Len(data))
       IN IF tag # Tag(key, iv, ct)
          THEN [ok |-> FALSE, error |-> OperationError]
          ELSE [ok |-> TRUE,
                data |-> [i \in 1..Len(ct) |->
                            Xor(ct[i], KeyStream(key, iv, i))]]

-----------------------------------------------------------------------------
(* encrypt and decrypt *)

NotSupported ==
  [name |-> "Error", message |-> "Web Crypto API is not supported in this browser"]
PassphraseEmpty ==
  [name |-> "Error", message |-> "Passphrase cannot be empty"]
IncorrectOrCorrupted ==
  [name |-> "Error", message |-> "Incorrect passphrase or corrupted data"]
IncorrectPassphrase ==
  [name |-> "Error", message |-> "Incorrect passphrase"]

isCryptoSupported == browser # "legacy"

\* The white space and line terminators String.prototype.trim removes
IsJsWhitespace(c) ==
  \/ c \in {9, 10, 11, 12, 13, 32, 160, 5760, 8232, 8233, 8239, 8287, 12288,
            65279}
  \/ c >= 8192 /\ c <= 8202

\* The passphrase check without the trim.
IsEmptyString(passphrase) == passphrase = <<>>

\* !passphrase || passphrase.trim().length === 0
IsBlank(passphrase) ==
  \A i \in 1..Len(passphrase) : IsJsWhitespace(passphrase[i])

\* message.includes(part)
Includes(message, part) ==
  \E i \in 1..(Len(message) - Len(part) + 1) :
    SubSeq(message, i, i + Len(part) - 1) = part

\* encrypt, with the salt and the iv that the random source gives it
encrypt(plaintext, passphrase, options, salt, iv) ==
  IF ~isCryptoSupported THEN [ok |-> FALSE, error |-> NotSupported]
  ELSE IF IsBlank(passphrase) THEN [ok |-> FALSE, error |-> PassphraseEmpty]
  ELSE
    LET iterations == IF Falsy(options.iterations) THEN JNum(200000)
                      ELSE options.iterations
        key == deriveKey(passphrase, salt, IntegerPart(iterations))
        plaintextBytes == IF plaintext.type = "string"
                          THEN TextEncode(plaintext.text)
                          ELSE plaintext.bytes
    IN IF ~key.ok THEN [ok |-> FALSE, error |-> key.error]
       ELSE [ok |-> TRUE,
             payload |->
               EncryptionPayload(
                 JStr(AES_GCM), JStr(PBKDF2),
                 JStr(arrayBufferToBase64(salt)),
                 JStr(arrayBufferToBase64(iv)),
                 iterations,
                 JStr(arrayBufferToBase64(
                        AesGcmEncrypt(key.key, iv, plaintextBytes))))]

\* The try block with the key derived from the default iteration count.
TryDecryptDefaultIterations(payload, passphrase) ==
  LET salt == base64ToArrayBuffer(Get(payload, K_salt).s)
      iv == base64ToArrayBuffer(Get(payload, K_iv).s)
      ciphertext == base64ToArrayBuffer(Get(payload, K_ct).s)
      key == deriveKey(passphrase, salt.bytes, 200000)
      plaintextBuffer == AesGcmDecrypt(key.key, iv.bytes, ciphertext.bytes)
  IN IF ~salt.ok THEN [ok |-> FALSE, error |-> salt.error]
     ELSE IF ~iv.ok THEN [ok |-> FALSE, error |-> iv.error]
     ELSE IF ~ciphertext.ok THEN [ok |-> FALSE, error |-> ciphertext.error]
     ELSE IF ~plaintextBuffer.ok
       THEN [ok |-> FALSE, error |-> plaintextBuffer.error]
     ELSE [ok |-> TRUE, text |-> TextDecode(plaintextBuffer.data)]

\* The try block of decrypt.
TryDecrypt(payload, passphrase) ==
  LET salt == base64ToArrayBuffer(Get(payload, K_salt).s)
      iv == base64ToArrayBuffer(Get(payload, K_iv).s)
      ciphertext == base64ToArrayBuffer(Get(payload, K_ct).s)
      key == deriveKey(passphrase, salt.bytes, Get(payload, K_iterations).n)
      plaintextBuffer == AesGcmDecrypt(key.key, iv.bytes, ciphertext.bytes)
  IN IF ~salt.ok THEN [ok |-> FALSE, error |-> salt.error]
     ELSE IF ~iv.ok THEN [ok |-> FALSE, error |-> iv.error]
     ELSE IF ~ciphertext.ok THEN [ok |-> FALSE, error |-> ciphertext.error]
     ELSE IF ~key.ok THEN [ok |-> FALSE, error |-> key.error]
     ELSE IF ~plaintextBuffer.ok
       THEN [ok |-> FALSE, error |-> plaintextBuffer.error]
     ELSE [ok |-> TRUE, text |-> TextDecode(plaintextBuffer.data)]

\* The catch block of decrypt.  What the try block throws is an Error or a
\* DOMException, which is an Error.
CatchDecrypt(err) ==
  IF Includes(err.message, "operation-specific") THEN IncorrectOrCorrupted
  ELSE IF Includes(err.message, "InvalidAccessError") THEN IncorrectPassphrase
  ELSE err

decrypt(payload, passphrase) ==
  IF ~isCryptoSupported THEN [ok |-> FALSE, error |-> NotSupported]
  ELSE IF IsBlank(passphrase) THEN [ok |-> FALSE, error |-> PassphraseEmpty]
  ELSE LET done == TryDecrypt(payload, passphrase) IN
       IF done.ok THEN done
       ELSE [ok |-> FALSE, error |-> CatchDecrypt(done.error)]

\* Plaintexts: ASCII, Latin, a surrogate pair, a lone surrogate, a leading
\* U+FEFF, and buffers that are and are not UTF-8.
Plaintexts ==
  {[type |-> "string", text |-> text] :
     text \in {<<>>, Codes("hi"), <<233>>, <<55357, 56832>>, <<55357>>,
               <<65279, 97>>}}
  \cup {[type |-> "buffer", bytes |-> bytes] :
          bytes \in {Codes("hi"), <<255>>, <<195, 169>>}}

Passphrases == {Codes("k"), Codes("pw"), Codes(" "), <<>>}

OptionsPool ==
  {[iterations |-> Undefined], [iterations |-> JNum(0)],
   [iterations |-> JNum(1000)]}

CryptoInit ==
  /\ browser \in {"firefox", "chrome", "legacy"}
  /\ cPlain \in Plaintexts
  /\ cPass \in Passphrases
  /\ cOpts \in OptionsPool
  /\ cEnv = NotYet
  /\ cTamper = "none"
  /\ cOut = NotYet
  /\ StoreIdle
  /\ ParseIdle
  /\ OtherIdle

\* handleEncrypt: encrypt(plaintext, passphrase)
Encrypt ==
  /\ ~cEnv.done
  /\ \E salt \in Salts, iv \in IVs :
       cEnv' = [done |-> TRUE, res |-> encrypt(cPlain, cPass, cOpts, salt, iv)]
  /\ UNCHANGED <<browser, cPlain, cPass, cOpts, cTamper, cOut, nonCryptoVars>>

FlipBit(bytes, i, k) == [bytes EXCEPT ![i] = Xor(@, 2 ^ k)]

\* The envelope with one bit of the bytes of a member flipped.
Flipped(payload, key, last, k) ==
  LET bytes == base64ToArrayBuffer(Get(payload, key).s).bytes
      i == IF last THEN Len(bytes) ELSE 1
  IN JObject(SetMember(payload.members, key,
                       JStr(arrayBufferToBase64(FlipBit(bytes, i, k)))))

\* Somebody flips a bit of the ciphertext or of the iv before the envelope
\* reaches decrypt.
Tamper(part, last, k) ==
  /\ cEnv.done
  /\ cEnv.res.ok
  /\ cTamper = "none"
  /\ ~cOut.done
  /\ cTamper' = part
  /\ cEnv' = [cEnv EXCEPT !.res.payload =
                Flipped(@, IF part = "ct" THEN K_ct ELSE K_iv, last, k)]
  /\ UNCHANGED <<browser, cPlain, cPass, cOpts, cOut, nonCryptoVars>>

\* handleDecrypt: decrypt(payload, passphrase)
Decrypt(passphrase) ==
  /\ cEnv.done
  /\ cEnv.res.ok
  /\ ~cOut.done
  /\ cOut' = [done |-> TRUE, pass |-> passphrase,
              res |-> decrypt(cEnv.res.payload, passphrase)]
  /\ UNCHANGED <<browser, cPlain, cPass, cOpts, cEnv, cTamper, nonCryptoVars>>

CryptoNext ==
  \/ Encrypt
  \/ \E part \in {"ct", "iv"}, last \in BOOLEAN, k \in {0, 7} :
       Tamper(part, last, k)
  \/ \E passphrase \in Passphrases : Decrypt(passphrase)

SpecCrypto == CryptoInit /\ [][CryptoNext]_vars

\* The iteration counts a caller may put into the options: none, zero, counts
\* below and above the default, a negative one and one that is no integer.
IterationOptions ==
  {[iterations |-> it] :
     it \in {Undefined, JNum(0), JNum(1), JNum(1000), JNum(300000), JNum(0 - 5),
             JFraction(1, 5)}}

OptionsInit ==
  /\ browser \in {"firefox", "chrome", "legacy"}
  /\ cPlain = [type |-> "string", text |-> Codes("hi")]
  /\ cPass \in {Codes("k"), Codes("pw")}
  /\ cOpts \in IterationOptions
  /\ cEnv = NotYet
  /\ cTamper = "none"
  /\ cOut = NotYet
  /\ StoreIdle
  /\ ParseIdle
  /\ OtherIdle

OptionsNext ==
  \/ Encrypt
  \/ \E passphrase \in {Codes("k"), Codes("pw")} : Decrypt(passphrase)

SpecOptions == OptionsInit /\ [][OptionsNext]_vars

-----------------------------------------------------------------------------
(* The encrypt tab (EncryptTab.handleEncrypt) and direct calls of encrypt and
   decrypt, with the random source and the history store *)

MaxCalls == 2

\* crypto.getRandomValues on n bytes: the k-th value the source hands out.
\* The source is taken never to hand out the same value twice.
getRandomValues(k, n) == [i \in 1..n |-> (k * 97 + i * 29) % 256]

\* A salt kept from the first call.
generateSaltCached(k) == getRandomValues(1, 16)

\* generateSalt(16), as the k-th draw
generateSalt(k) == getRandomValues(k, 16)

\* generateIV(), as the k-th draw
generateIV(k) == getRandomValues(k, 12)

\* The draws of one encrypt call: none when it throws before line 101.
EncryptDraws(passphrase) ==
  IF ~isCryptoSupported \/ IsBlank(passphrase) THEN 0 ELSE 2

\* encrypt(plaintext, passphrase) when the source has handed out k values
encryptAt(plaintext, passphrase, k) ==
  IF EncryptDraws(passphrase) = 0
  THEN encrypt(plaintext, passphrase, [iterations |-> Undefined], <<>>, <<>>)
  ELSE encrypt(plaintext, passphrase, [iterations |-> Undefined],
               generateSalt(k + 1), generateIV(k + 2))

CouldNotSave ==
  [name |-> "Error", message |-> "Could not save to history. Storage may be full."]
EnterText ==
  [name |-> "Error", message |-> "Please enter text or upload a file"]
EnterPassphrase ==
  [name |-> "Error", message |-> "Please enter a passphrase"]

\* The state `result` after the try block when it is left without the result.
TabResultUnwound(payload, key, saved) ==
  IF saved THEN [done |-> TRUE, payload |-> payload, key |-> key] ELSE NotYet

\* The state `result` after the try block: setResult({ payload, key }) comes
\* before addToHistory, and the catch block leaves it alone.
TabResult(payload, key, saved) ==
  [done |-> TRUE, payload |-> payload, key |-> key]

\* An argument of addToHistory that holds the whole result.
HistoryArgOfResult(filename, payload, key, plaintext) ==
  [name |-> IF filename = "" THEN "Untitled" ELSE filename,
   payload |-> [payload |-> payload, key |-> key],
   size |-> Len(plaintext)]

\* The argument of addToHistory: name, payload and size
HistoryArg(filename, payload, key, plaintext) ==
  [name |-> IF filename = "" THEN "Untitled" ELSE filename,
   payload |-> payload,
   size |-> Len(plaintext)]

TabTexts == {Codes("hi"), Codes(" ")}
TabPassphrases == {Codes("pw"), <<9, 32>>, <<>>}

TabInit ==
  /\ StoreIdle
  /\ browser \in {"firefox", "legacy"}
  /\ cPlain = [type |-> "string", text |-> <<>>]
  /\ cPass = <<>>
  /\ cOpts = [iterations |-> Undefined]
  /\ cEnv = NotYet
  /\ cTamper = "none"
  /\ cOut = NotYet
  /\ ParseIdle
  /\ OtherIdle

tabFrame == <<medium, clock, pc, hist, arg, outcome, parseVars, cPlain, cPass,
              cOpts, cEnv, cTamper, cOut, browser, keyVars, meterVars, pageVars>>

\* A direct call of encrypt(plaintext, passphrase).
CallEncrypt(plaintext, passphrase) ==
  /\ Len(sMade) < MaxCalls
  /\ LET made == encryptAt([type |-> "string", text |-> plaintext],
                           passphrase, rng)
     IN /\ rng' = rng + EncryptDraws(passphrase)
        /\ sMade' = Append(sMade, [plain |-> plaintext, pass |-> passphrase,
                                   res |-> made])
        /\ sLast' = [done |-> TRUE, op |-> "encrypt", given |-> plaintext,
                     pass |-> passphrase, res |-> made, before |-> rng]
  /\ UNCHANGED <<sResult, sError>>
  /\ UNCHANGED <<ls, nextId, appended, disturbed, listed>>
  /\ UNCHANGED tabFrame

\* The envelopes a caller may hand to decrypt: the one made last, and one
\* whose salt is not base64.
Envelopes ==
  {sMade[i].res.payload : i \in {j \in {Len(sMade)} \ {0} : sMade[j].res.ok}}
  \cup {EncryptionPayload(JStr(AES_GCM), JStr(PBKDF2), JStr(Codes("!!")),
                          JStr(Codes("AAAA")), JNum(200000), JStr(Codes("AAAA")))}

\* A direct call of decrypt(payload, passphrase).
CallDecrypt(payload, passphrase) ==
  /\ sLast' = [done |-> TRUE, op |-> "decrypt", given |-> payload,
               pass |-> passphrase, res |-> decrypt(payload, passphrase),
               before |-> rng]
  /\ UNCHANGED <<rng, sResult, sError, sMade>>
  /\ UNCHANGED <<ls, nextId, appended, disturbed, listed>>
  /\ UNCHANGED tabFrame

\* handleEncrypt of the encrypt tab, from the click to the end of the handler;
\* full says that localStorage.setItem throws in addToHistory.
HandleEncrypt(plaintext, passphrase, filename, full) ==
  /\ Len(sMade) < MaxCalls
  /\ full => disturbed < MaxDisturb
  /\ LET made == encryptAt([type |-> "string", text |-> plaintext],
                           passphrase, rng)
         salt == base64ToArrayBuffer(Get(made.payload, K_salt).s).bytes
         key == deriveKey(passphrase, salt, Get(made.payload, K_iterations).n)
         item == HistoryArg(filename, made.payload, key.key, plaintext)
         newItem == HistoryItem(nextId + 1, item.name, clock, item.payload,
                                item.size)
         written == JSONstringifyItems(AddTrimmed(getHistory(ls, medium), newItem))
     IN
     IF IsBlank(plaintext) \/ IsBlank(passphrase)
     THEN /\ sError' = [done |-> TRUE,
                        error |-> IF IsBlank(plaintext) THEN EnterText
                                  ELSE EnterPassphrase]
          /\ sLast' = [done |-> TRUE, op |-> "tab", given |-> plaintext,
                       pass |-> passphrase,
                       res |-> [ok |-> FALSE, error |-> sError'.error],
                       before |-> rng, full |-> full]
          /\ UNCHANGED <<rng, sResult, sMade>>
          /\ UNCHANGED <<ls, nextId, appended, disturbed, listed>>
     ELSE /\ rng' = rng + EncryptDraws(passphrase)
          /\ sMade' = Append(sMade, [plain |-> plaintext, pass |-> passphrase,
                                     res |-> made])
          /\ sLast' = [done |-> TRUE, op |-> "tab", given |-> plaintext,
                       pass |-> passphrase, res |-> made, before |-> rng,
                       full |-> full]
          /\ IF ~made.ok
             THEN /\ sResult' = NotYet
                  /\ sError' = [done |-> TRUE, error |-> made.error]
                  /\ UNCHANGED <<ls, nextId, appended, disturbed, listed>>
             ELSE IF full
             THEN /\ sResult' = TabResult(made.payload, key.key, FALSE)
                  /\ sError' = [done |-> TRUE, error |-> CouldNotSave]
                  /\ disturbed' = disturbed + 1
                  /\ UNCHANGED <<ls, nextId, appended, listed>>
             ELSE /\ sResult' = TabResult(made.payload, key.key, TRUE)
                  /\ sError' = NotYet
                  /\ ls' = written
                  /\ nextId' = nextId + 1
                  /\ appended' = Append(appended, nextId + 1)
                  /\ listed' = [done |-> TRUE, items |-> getHistory(written, medium)]
                  /\ UNCHANGED disturbed
  /\ UNCHANGED tabFrame

TabNext ==
  \/ \E passphrase \in TabPassphrases : CallEncrypt(Codes("hi"), passphrase)
  \/ \E payload \in Envelopes, passphrase \in TabPassphrases :
       CallDecrypt(payload, passphrase)
  \/ \E plaintext \in TabTexts, passphrase \in TabPassphrases,
        filename \in {"encrypted", ""}, full \in BOOLEAN :
       HandleEncrypt(plaintext, passphrase, filename, full)

SpecSession == TabInit /\ [][TabNext]_vars

-----------------------------------------------------------------------------
(* exportKey, importKey and decryptWithKey *)

\* base64url without padding, as in the member k of a JSON Web Key
Base64UrlEncode(bytes) ==
  LET text == StripPadding(B64Encode(bytes)) IN
  [i \in 1..Len(text) |-> IF text[i] = 43 THEN 45
                          ELSE IF text[i] = 47 THEN 95
                          ELSE text[i]]

Base64UrlDecode(text) ==
  IF \/ \E i \in 1..Len(text) : text[i] \in {43, 47, 61} \/ IsAsciiWhitespace(text[i])
  THEN [ok |-> FALSE]
  ELSE LET r == atob([i \in 1..Len(text) |-> IF text[i] = 45 THEN 43
                                             ELSE IF text[i] = 95 THEN 47
                                             ELSE text[i]])
       IN IF r.ok THEN [ok |-> TRUE, bytes |-> r.binary] ELSE [ok |-> FALSE]

\* The name of AES-GCM with a key of n bytes in a JSON Web Key
JwkAlg(n) == Codes(IF n = 16 THEN "A128GCM" ELSE IF n = 24 THEN "A192GCM" ELSE "A256GCM")

\* crypto.subtle.exportKey('jwk', key) of an extractable AES-GCM key
JsonWebKey(key) ==
  JObject(<< <<Codes("alg"), JStr(JwkAlg(Len(key)))>>,
             <<Codes("ext"), JBool(TRUE)>>,
             <<Codes("k"), JStr(Base64UrlEncode(key))>>,
             <<Codes("key_ops"), JArr(<<JStr(Codes("encrypt")), JStr(Codes("decrypt"))>>)>>,
             <<Codes("kty"), JStr(Codes("oct"))>> >>)

\* exportKey(key): btoa(JSON.stringify(exported))
exportKey(key) == btoa(JSONstringify(JsonWebKey(key))).text

InvalidKeyFormat == [name |-> "Error", message |-> "Invalid key format"]

DecryptWithKeyFailed ==
  [name |-> "Error",
   message |-> "Decryption with key failed. The key may not match this payload."]

\* crypto.subtle.importKey('jwk', jwk, {name: 'AES-GCM', length: 256}, true,
\* ['encrypt', 'decrypt']) for a jwk whose members use and key_ops, when
\* present, allow the two usages and whose member k is a string or absent.
SubtleImportJwk(jwk) ==
  LET k == Get(jwk, Codes("k"))
      raw == Base64UrlDecode(k.s)
  IN IF jwk.t \notin {"obj", "arr", "null"} THEN [ok |-> FALSE]
     ELSE IF Get(jwk, Codes("kty")) # JStr(Codes("oct")) THEN [ok |-> FALSE]
     ELSE IF k.t # "str" THEN [ok |-> FALSE]
     ELSE IF ~raw.ok THEN [ok |-> FALSE]
     ELSE IF Len(raw.bytes) \notin {16, 24, 32} THEN [ok |-> FALSE]
     ELSE IF /\ HasMember(jwk, Codes("alg"))
             /\ Get(jwk, Codes("alg")) # JStr(JwkAlg(Len(raw.bytes)))
          THEN [ok |-> FALSE]
     ELSE IF Get(jwk, Codes("ext")) = JBool(FALSE) THEN [ok |-> FALSE]
     ELSE [ok |-> TRUE, key |-> raw.bytes]

\* importKey(exportedKey)
importKey(exportedKey) ==
  LET decoded == atob(exportedKey)
      jwk == JSONparse(decoded.binary)
      key == SubtleImportJwk(jwk.val)
  IN IF ~isCryptoSupported THEN [ok |-> FALSE, error |-> InvalidKeyFormat]
     ELSE IF ~decoded.ok THEN [ok |-> FALSE, error |-> InvalidKeyFormat]
     ELSE IF ~jwk.ok THEN [ok |-> FALSE, error |-> InvalidKeyFormat]
     ELSE IF ~key.ok THEN [ok |-> FALSE, error |-> InvalidKeyFormat]
     ELSE [ok |-> TRUE, key |-> key.key]

\* decryptWithKey(payload, key)
decryptWithKey(payload, key) ==
  LET iv == base64ToArrayBuffer(Get(payload, K_iv).s)
      ciphertext == base64ToArrayBuffer(Get(payload, K_ct).s)
      plaintextBuffer == AesGcmDecrypt(key, iv.bytes, ciphertext.bytes)
  IN IF ~isCryptoSupported THEN [ok |-> FALSE, error |-> NotSupported]
     ELSE IF ~iv.ok \/ ~ciphertext.ok \/ Get(payload, K_alg) # JStr(AES_GCM)
       THEN [ok |-> FALSE, error |-> DecryptWithKeyFailed]
     ELSE IF ~plaintextBuffer.ok
       THEN [ok |-> FALSE, error |-> DecryptWithKeyFailed]
     ELSE [ok |-> TRUE, text |-> TextDecode(plaintextBuffer.data)]

KeyInit ==
  /\ browser \in {"firefox", "legacy"}
  /\ cPlain \in Plaintexts
  /\ cPass \in {Codes("k"), Codes("pw")}
  /\ cOpts = [iterations |-> Undefined]
  /\ cEnv = NotYet
  /\ cTamper = "none"
  /\ cOut = NotYet
  /\ StoreIdle
  /\ ParseIdle
  /\ OtherIdle

keyFrame == <<storeVars, parseVars, cryptoVars, tabVars, meterVars, pageVars>>

\* deriveKey(passphrase, salt, payload.iterations) with the salt of the
\* envelope, as handleEncrypt calls it for the export option.
Derive(passphrase) ==
  /\ cEnv.done
  /\ cEnv.res.ok
  /\ ~kKey.done
  /\ kKey' = [done |-> TRUE, pass |-> passphrase,
              res |-> deriveKey(passphrase,
                                base64ToArrayBuffer(Get(cEnv.res.payload, K_salt).s).bytes,
                                Get(cEnv.res.payload, K_iterations).n)]
  /\ UNCHANGED <<kText, kImported, kOut>>
  /\ UNCHANGED keyFrame

\* handleExportKey: exportKey(cryptoKey)
Export ==
  /\ kKey.done
  /\ kKey.res.ok
  /\ ~kText.done
  /\ kText' = [done |-> TRUE, text |-> exportKey(kKey.res.key)]
  /\ UNCHANGED <<kKey, kImported, kOut>>
  /\ UNCHANGED keyFrame

\* The contents of a key file: the exported text, texts that are no key, and
\* the exported text of other keys of 32 and of 16 bytes.
KeyTexts ==
  (IF kText.done THEN {kText.text} ELSE {})
  \cup {<<>>, Codes("!!"), btoa(Codes("null")).text,
        btoa(JSONstringify(JObject(<< <<Codes("kty"), JStr(Codes("oct"))>>,
                                      <<Codes("k"), JStr(Codes("AAAA"))>> >>))).text,
        exportKey([i \in 1..32 |-> i]),
        exportKey([i \in 1..16 |-> i])}

\* The key file is loaded: importKey(content)
Import(text) ==
  /\ ~kImported.done
  /\ kImported' = [done |-> TRUE, text |-> text, res |-> importKey(text)]
  /\ UNCHANGED <<kKey, kText, kOut>>
  /\ UNCHANGED keyFrame

\* handleDecrypt with a key file: decryptWithKey(payload, importedKey)
DecryptWithKey ==
  /\ cEnv.done
  /\ cEnv.res.ok
  /\ kImported.done
  /\ kImported.res.ok
  /\ ~kOut.done
  /\ kOut' = [done |-> TRUE,
              res |-> decryptWithKey(cEnv.res.payload, kImported.res.key)]
  /\ UNCHANGED <<kKey, kText, kImported>>
  /\ UNCHANGED keyFrame

KeyNext ==
  \/ Encrypt
  \/ \E passphrase \in {Codes("k"), Codes("pw"), Codes(" ")} : Derive(passphrase)
  \/ Export
  \/ \E text \in KeyTexts : Import(text)
  \/ DecryptWithKey

SpecKey == KeyInit /\ [][KeyNext]_vars

-----------------------------------------------------------------------------
(* removeFromHistory, one call after the other *)

RemoveInit ==
  /\ ls \in {NoItem, Garbage}
            \cup {TextOf(JArr(xs)) : xs \in UNION {EntryArrays(n) : n \in 0..MaxStored}}
  /\ medium \in Mediums
  /\ clock = 0
  /\ nextId = MaxStored
  /\ pc = [c \in Callers |-> "idle"]
  /\ hist = [c \in Callers |-> <<>>]
  /\ arg = [c \in Callers |-> NoArg]
  /\ outcome = [c \in Callers |-> "none"]
  /\ appended = <<>>
  /\ disturbed = 0
  /\ listed = NotYet
  /\ NonStoreIdle

RemoveNext ==
  \/ \E id \in 0..MaxStored : RemoveRead(1, id)
  \/ RemoveWrite(1)

SpecRemove == RemoveInit /\ [][RemoveNext]_vars

-----------------------------------------------------------------------------
(* calculatePasswordStrength, as the strength meter calls it on every render *)

MaxLen == 40
MaxFree == 4

IsLower(c) == c >= 97 /\ c <= 122
IsUpper(c) == c >= 65 /\ c <= 90

\* charSetSize after the four tests
CharSetSize(password) ==
  (IF \E i \in 1..Len(password) : IsLower(password[i]) THEN 26 ELSE 0)
  + (IF \E i \in 1..Len(password) : IsUpper(password[i]) THEN 26 ELSE 0)
  + (IF \E i \in 1..Len(password) : IsDigit(password[i]) THEN 10 ELSE 0)
  + (IF \E i \in 1..Len(password) :
          ~IsLower(password[i]) /\ ~IsUpper(password[i]) /\ ~IsDigit(password[i])
     THEN 32 ELSE 0)

\* Math.log2(n) in millionths, for the sums of 26, 26, 10 and 32, and for 1
Log2Micro(n) ==
  CASE n = 1 -> 0
    [] n = 10 -> 3321928
    [] n = 26 -> 4700440
    [] n = 32 -> 5000000
    [] n = 36 -> 5169925
    [] n = 42 -> 5392317
    [] n = 52 -> 5700440
    [] n = 58 -> 5857981
    [] n = 62 -> 5954196
    [] n = 68 -> 6087463
    [] n = 84 -> 6392317
    [] n = 94 -> 6554589

\* An entropy that starts again from 0 at 128 bits.
EntropyWrapping(password) ==
  (Len(password) * Log2Micro(IF CharSetSize(password) = 0 THEN 1
                             ELSE CharSetSize(password))) % 128000000

\* password.length * Math.log2(charSetSize || 1), in millionths of a bit
Entropy(password) ==
  LET charSetSize == CharSetSize(password) IN
  Len(password) * Log2Micro(IF charSetSize = 0 THEN 1 ELSE charSetSize)

\* The thresholds taken as inclusive.
ScoreOfInclusive(entropy) ==
  IF entropy <= 28000000 THEN 0
  ELSE IF entropy <= 36000000 THEN 1
  ELSE IF entropy <= 60000000 THEN 2
  ELSE IF entropy <= 128000000 THEN 3
  ELSE 4

\* The if chain on the entropy
ScoreOf(entropy) ==
  IF entropy < 28000000 THEN 0
  ELSE IF entropy < 36000000 THEN 1
  ELSE IF entropy < 60000000 THEN 2
  ELSE IF entropy < 128000000 THEN 3
  ELSE 4

Feedback(score) ==
  CASE score = 0 -> "Very weak - use longer passphrase"
    [] score = 1 -> "Weak - add more characters"
    [] score = 2 -> "Fair - consider more complexity"
    [] score = 3 -> "Strong - good passphrase"
    [] score = 4 -> "Very strong - excellent"

\* Math.round of a value given in millionths
MathRound(micro) == (micro + 500000) \div 1000000

calculatePasswordStrength(password) ==
  IF password = <<>>
  THEN [score |-> 0, entropy |-> 0, feedback |-> "Password required"]
  ELSE LET entropy == Entropy(password)
           score == ScoreOf(entropy)
       IN [score |-> score, entropy |-> MathRound(entropy),
           feedback |-> Feedback(score)]

\* The keys: a lowercase letter, an uppercase letter, a digit and a symbol
Keys == {97, 90, 55, 33}

MeterInit ==
  /\ wPwd = <<>>
  /\ wRes = [done |-> TRUE, res |-> calculatePasswordStrength(<<>>)]
  /\ wPrev = NotYet
  /\ StoreIdle
  /\ ParseIdle
  /\ CryptoIdle
  /\ TabIdle
  /\ KeyIdle
  /\ PageIdle

\* A key is pressed in the passphrase field and the meter renders again; after
\* the first MaxFree characters the key is the one pressed last.
Type(c) ==
  /\ Len(wPwd) < MaxLen
  /\ IF Len(wPwd) < MaxFree THEN TRUE ELSE c = wPwd[Len(wPwd)]
  /\ wPwd' = Append(wPwd, c)
  /\ wRes' = [done |-> TRUE, res |-> calculatePasswordStrength(wPwd')]
  /\ wPrev' = [done |-> TRUE, password |-> wPwd, res |-> wRes.res]
  /\ UNCHANGED <<storeVars, parseVars, cryptoVars, tabVars, keyVars, pageVars>>

MeterNext == \E c \in Keys : Type(c)

SpecStrength == MeterInit /\ [][MeterNext]_vars

-----------------------------------------------------------------------------
(* generatePassphrase, as the passphrase generator of the encrypt tab calls it *)

MaxDrawn == 8

\* const words = [...]
Words ==
  << Codes("anchor"), Codes("brief"), Codes("cloak"), Codes("dance"),
     Codes("ember"), Codes("frost"), Codes("glory"), Codes("haven"),
     Codes("iron"), Codes("jewel"), Codes("knight"), Codes("lunar"),
     Codes("maple"), Codes("noble"), Codes("ocean"), Codes("prism"),
     Codes("quest"), Codes("raven"), Codes("sage"), Codes("tiger"),
     Codes("unity"), Codes("viper"), Codes("waves"), Codes("xenon"),
     Codes("yield"), Codes("zenith"), Codes("alpha"), Codes("bravo"),
     Codes("coral"), Codes("delta"), Codes("echo"), Codes("flame"),
     Codes("gamma"), Codes("halo"), Codes("iris"), Codes("jade") >>

\* An index that never reaches the last word.
WordIndexShort(value) == value % (Len(Words) - 1)

\* randomValues[i] % words.length
WordIndex(value) == value % Len(Words)

\* selected.join('-')
RECURSIVE Join(_)
Join(selected) ==
  IF selected = <<>> THEN <<>>
  ELSE IF Len(selected) = 1 THEN selected[1]
  ELSE selected[1] \o <<45>> \o Join(Tail(selected))

\* generatePassphrase(length), randomValues being what getRandomValues put
\* into the Uint32Array of that length
generatePassphrase(length, randomValues) ==
  Join([i \in 1..length |-> Words[WordIndex(randomValues[i]) + 1]])

\* Values of a Uint32Array element: the least, the last index of the list,
\* and a large one.
Uint32Values == {0, 35, 2147483647}

GenInit ==
  /\ gLength = 6
  /\ gOut = NotYet
  /\ wPwd = <<>>
  /\ wRes = [done |-> TRUE, res |-> calculatePasswordStrength(<<>>)]
  /\ wPrev = NotYet
  /\ StoreIdle
  /\ ParseIdle
  /\ CryptoIdle
  /\ TabIdle
  /\ KeyIdle
  /\ DecIdle

\* The word count is chosen in the select: setLength(Number(e.target.value))
SetLength(n) ==
  /\ gLength # n
  /\ gLength' = n
  /\ UNCHANGED <<gOut, decVars, meterVars, tabVars, keyVars>>
  /\ UNCHANGED <<storeVars, parseVars, cryptoVars>>

\* handleGenerate: generatePassphrase(length), then onGenerate(passphrase),
\* which is setPassphrase of the encrypt tab; the strength meter renders again.
Generate(randomValues) ==
  /\ rng + gLength <= MaxDrawn
  /\ rng' = rng + gLength
  /\ gOut' = [done |-> TRUE, length |-> gLength, randomValues |-> randomValues,
              text |-> generatePassphrase(gLength, randomValues)]
  /\ wPwd' = gOut'.text
  /\ wRes' = [done |-> TRUE, res |-> calculatePasswordStrength(wPwd')]
  /\ UNCHANGED <<gLength, wPrev, decVars, keyVars, sResult, sError, sMade, sLast>>
  /\ UNCHANGED <<storeVars, parseVars, cryptoVars>>

GenNext ==
  \/ \E n \in {4, 6, 8} : SetLength(n)
  \/ \E randomValues \in [1..gLength -> Uint32Values] : Generate(randomValues)

SpecGenerate == GenInit /\ [][GenNext]_vars

-----------------------------------------------------------------------------
(* The decrypt tab *)

\* An envelope that encrypt('hi', 'pw') returned in a browser with Web Crypto.
SavedKey == Pbkdf2(Codes("pw"), generateSalt(1), 200000)

SavedEnvelope ==
  EncryptionPayload(JStr(AES_GCM), JStr(PBKDF2),
                    JStr(arrayBufferToBase64(generateSalt(1))),
                    JStr(arrayBufferToBase64(generateIV(2))),
                    JNum(200000),
                    JStr(arrayBufferToBase64(
                           AesGcmEncrypt(SavedKey, generateIV(2),
                                         TextEncode(Codes("hi"))))))

\* What is pasted or uploaded: the envelope as text, and a text that is none
DecryptInputs == {JSONstringify(SavedEnvelope), Codes("!!")}

DecryptPassphrases == {Codes("pw"), Codes("k")}

\* The contents of key files: the exported key of the envelope, the exported
\* text of another key, and a text that is no key
KeyFiles == {exportKey(SavedKey), exportKey([i \in 1..32 |-> i]), Codes("!!")}

FailedToImport ==
  [name |-> "Error",
   message |-> "Failed to import key. Please check the file format."]

\* The state `result` when an attempt starts without clearing it.
ResultKept(result) == result

\* setResult(null) at the start of the try block
ResultAtStart(result) == NotYet

\* The state `importedKey` after an import that drops the key on failure.
KeyDropped(importedKey) == NotYet

\* The catch block of handleKeyImport leaves `importedKey` alone
KeyAfterFailedImport(importedKey) == importedKey

\* importedKey ? decryptWithKey(payload, importedKey)
\*             : decrypt(payload, passphrase)
Await(payload, importedKey, passphrase) ==
  IF importedKey.done
  THEN [call |-> "decryptWithKey", payload |-> payload, key |-> importedKey.key]
  ELSE [call |-> "decrypt", payload |-> payload, passphrase |-> passphrase]

\* What the awaited call settles to
Settled(flight) ==
  IF flight.call = "decryptWithKey"
  THEN decryptWithKey(flight.payload, flight.key)
  ELSE decrypt(flight.payload, flight.passphrase)

\* disabled={isDecrypting || !ciphertextInput.trim()
\*           || (!passphrase.trim() && !importedKey)}
DecryptDisabled ==
  dBusy \/ IsBlank(dInput) \/ (IsBlank(dPass) /\ ~dKey.done)

DecInit ==
  /\ browser \in {"firefox", "legacy"}
  /\ cPlain = [type |-> "string", text |-> Codes("hi")]
  /\ cPass = Codes("pw")
  /\ cOpts = [iterations |-> Undefined]
  /\ cEnv = NotYet
  /\ cTamper = "none"
  /\ cOut = NotYet
  /\ StoreIdle
  /\ ParseIdle
  /\ TabIdle
  /\ KeyIdle
  /\ MeterIdle
  /\ PageIdle

decFrame == <<storeVars, parseVars, cryptoVars, tabVars, keyVars, meterVars,
              genVars>>

\* The textarea: setCiphertextInput(e.target.value), disabled={isDecrypting}
TypeInput(text) ==
  /\ ~dBusy
  /\ dInput # text
  /\ dInput' = text
  /\ UNCHANGED <<dPass, dKey, dBusy, dResult, dError, dFlight, dImport, dLast,
                 dHad>>
  /\ UNCHANGED decFrame

\* handleFileUpload once the file is read: the file input is never disabled
FileUpload(content) ==
  /\ dInput' = content
  /\ dError' = NotYet
  /\ UNCHANGED <<dPass, dKey, dBusy, dResult, dFlight, dImport, dLast, dHad>>
  /\ UNCHANGED decFrame

\* The passphrase field: disabled={isDecrypting || !!importedKey}
TypePassphrase(passphrase) ==
  /\ ~dBusy
  /\ ~dKey.done
  /\ dPass # passphrase
  /\ dPass' = passphrase
  /\ UNCHANGED <<dInput, dKey, dBusy, dResult, dError, dFlight, dImport, dLast,
                 dHad>>
  /\ UNCHANGED decFrame

\* The alert is closed: setError(null)
CloseAlert ==
  /\ dError.done
  /\ dError' = NotYet
  /\ UNCHANGED <<dInput, dPass, dKey, dBusy, dResult, dFlight, dImport, dLast,
                 dHad>>
  /\ UNCHANGED decFrame

\* handleKeyImport up to its first await: a key file is chosen
KeyImportStart(content) ==
  /\ content \notin dImport
  /\ dImport' = dImport \cup {content}
  /\ UNCHANGED <<dInput, dPass, dKey, dBusy, dResult, dError, dFlight, dLast,
                 dHad>>
  /\ UNCHANGED decFrame

\* The try and the catch block of handleKeyImport once importKey has settled
ImportWith(key) ==
  IF key.ok
  THEN /\ dKey' = [done |-> TRUE, key |-> key.key]
       /\ dError' = NotYet
       /\ dPass' = <<>>
  ELSE /\ dKey' = KeyAfterFailedImport(dKey)
       /\ dError' = [done |-> TRUE, message |-> FailedToImport.message]
       /\ dPass' = dPass

\* handleKeyImport after importKey(content) has settled
KeyImportSettle(content) ==
  /\ content \in dImport
  /\ dImport' = dImport \ {content}
  /\ ImportWith(importKey(content))
  /\ UNCHANGED <<dInput, dBusy, dResult, dFlight, dLast, dHad>>
  /\ UNCHANGED decFrame

\* The try block of handleDecrypt once parsePayload has returned or thrown
StartWith(parsed) ==
  IF parsed.ok
  THEN /\ dBusy' = TRUE
       /\ dError' = NotYet
       /\ dFlight' = [done |-> TRUE, imported |-> dKey, typed |-> dPass,
                      awaits |-> Await(parsed.payload, dKey, dPass)]
       /\ dLast' = dLast
  ELSE /\ dBusy' = FALSE
       /\ dError' = [done |-> TRUE, message |-> parsed.error.message]
       /\ dFlight' = NotYet
       /\ dLast' = [done |-> TRUE, imported |-> dKey, typed |-> dPass,
                    awaits |-> [call |-> "none"], res |-> parsed]

\* handleDecrypt from the click to its await: the two tests, the four state
\* updates and parsePayload, which throws into the catch block at once
HandleDecryptStart ==
  /\ ~DecryptDisabled
  /\ dHad' = dResult.done
  /\ dResult' = ResultAtStart(dResult)
  /\ StartWith(parsePayload([type |-> "string", text |-> dInput]))
  /\ UNCHANGED <<dInput, dPass, dKey, dImport>>
  /\ UNCHANGED decFrame

\* setResult(plaintext) or the catch block, then the finally block
SettleWith(res) ==
  /\ dResult' = IF res.ok THEN [done |-> TRUE, text |-> res.text] ELSE dResult
  /\ dError' = IF res.ok THEN dError
               ELSE [done |-> TRUE, message |-> res.error.message]
  /\ dLast' = [done |-> TRUE, imported |-> dFlight.imported,
               typed |-> dFlight.typed, awaits |-> dFlight.awaits, res |-> res]
  /\ dBusy' = FALSE

\* handleDecrypt after the await
HandleDecryptSettle ==
  /\ dFlight.done
  /\ SettleWith(Settled(dFlight.awaits))
  /\ dFlight' = NotYet
  /\ UNCHANGED <<dInput, dPass, dKey, dImport, dHad>>
  /\ UNCHANGED decFrame

DecNext ==
  \/ \E text \in DecryptInputs \cup {<<>>} : TypeInput(text)
  \/ \E content \in DecryptInputs : FileUpload(content)
  \/ \E passphrase \in DecryptPassphrases \cup {<<>>} : TypePassphrase(passphrase)
  \/ CloseAlert
  \/ \E content \in KeyFiles : KeyImportStart(content)
  \/ \E content \in KeyFiles : KeyImportSettle(content)
  \/ HandleDecryptStart
  \/ HandleDecryptSettle

SpecDecrypt == DecInit /\ [][DecNext]_vars

-----------------
(* Properties of the history store *)

Stored == getHistory(ls, medium)

\* The stored text is a JSON array all of whose elements are entries.
HoldsEntries ==
  /\ ls.kind = "text"
  /\ ls.valid
  /\ ls.doc.t = "arr"
  /\ \A i \in 1..Len(ls.doc.xs) : IsEntry(ls.doc.xs[i])

(* C2: starting from an empty store, after n successful addToHistory calls
   getHistory() returns min(MAX_ITEMS, n) entries, and they are the most
   recently appended ones, newest first. *)
C2_HistoryCap ==
  /\ Len(Stored) = Min(MAX_ITEMS, Len(appended))
  /\ \A i \in 1..Len(Stored) :
       /\ IsEntry(Stored[i])
       /\ Stored[i].id = appended[Len(appended) - i + 1]

\* More appends than the cap have succeeded, two of them within the same
\* millisecond and two of them not.
C2_Witness ==
  /\ Len(appended) > MAX_ITEMS
  /\ Len(Stored) = MAX_ITEMS
  /\ Stored[1].timestamp = Stored[2].timestamp
  /\ Stored[1].timestamp # Stored[MAX_ITEMS].timestamp

(* C3: whatever the interleaving of addToHistory, removeFromHistory and
   clearHistory calls of several callers, the persisted collection never
   holds more than MAX_ITEMS entries. *)
C3_NeverOverCap ==
  /\ ls.kind = "text" => HoldsEntries /\ Len(ls.doc.xs) <= MAX_ITEMS

\* A full store written by an append that evicted an entry, while the other
\* caller is between its read and its write.
C3_Witness ==
  /\ HoldsEntries
  /\ Len(ls.doc.xs) = MAX_ITEMS
  /\ Len(appended) >= 2
  /\ \E c \in Callers : pc[c] # "idle"

(* C4: getHistory() returns the stored entries sorted by timestamp, newest
   first, whatever their order in the backing medium, each stored entry
   exactly once. *)
C4_SortedPermutation ==
  (listed.done /\ medium = "ok" /\ HoldsEntries) =>
    /\ Len(listed.items) = Len(ls.doc.xs)
    /\ \A i \in 1..Len(listed.items) - 1 :
         listed.items[i].timestamp >= listed.items[i + 1].timestamp
    /\ \A i \in 1..Len(ls.doc.xs) :
         Cardinality({j \in 1..Len(listed.items) :
                        listed.items[j] = ls.doc.xs[i]}) = 1

\* The medium holds the entries oldest first and they have been listed.
C4_Witness ==
  /\ listed.done
  /\ medium = "ok"
  /\ HoldsEntries
  /\ Len(ls.doc.xs) >= 3
  /\ ls.doc.xs[1].timestamp < ls.doc.xs[3].timestamp

(* C5: when the backing store is absent, unreadable, no valid JSON or JSON
   that is not an array of entries, getHistory() returns the empty sequence. *)
C5_CorruptGivesEmpty ==
  (listed.done /\ (medium # "ok" \/ ~HoldsEntries)) => listed.items = <<>>

-----------------------------------------------------------------------------
(* Properties of parsePayload and encodePayload *)

TextForms == {"wrapped", "raw", "indented", "pasted"}

WrittenForms == {"wrapped", "raw", "indented", "object"}

\* All six members are there, whatever their values.
AllPresent(v) ==
  /\ v.t = "obj"
  /\ \A k \in 1..Len(RequiredFields) : HasMember(v, RequiredFields[k])

\* No member is the empty string, zero, false or null.
NoneEmpty(v) ==
  \A k \in 1..Len(v.members) :
    /\ v.members[k][2].t \in {"str", "num", "obj", "arr", "bool"}
    /\ v.members[k][2] \notin {JStr(<<>>), JNum(0), JBool(FALSE)}

Unsupported(v) ==
  Get(v, K_alg) # JStr(AES_GCM) \/ Get(v, K_kdf) # JStr(PBKDF2)

\* The error is of the unsupported-identifier kind and carries the value of
\* the member that does not match.
NamesOffending(res, v) ==
  /\ ~res.ok
  /\ \/ /\ Get(v, K_alg) # JStr(AES_GCM)
        /\ res.error = UnsupportedAlgorithm(Get(v, K_alg))
     \/ /\ Get(v, K_kdf) # JStr(PBKDF2)
        /\ res.error = UnsupportedKDF(Get(v, K_kdf))

DecodesNonEmpty(v) ==
  /\ v.t = "str"
  /\ atob(v.s).ok
  /\ atob(v.s).binary # <<>>

\* The invariants of an envelope.
EnvelopeInvariants(v) ==
  /\ AllPresent(v)
  /\ NoneEmpty(v)
  /\ Get(v, K_alg) = JStr(AES_GCM)
  /\ Get(v, K_kdf) = JStr(PBKDF2)
  /\ DecodesNonEmpty(Get(v, K_salt))
  /\ DecodesNonEmpty(Get(v, K_iv))
  /\ Get(v, K_iterations).t = "num"
  /\ Get(v, K_iterations).n > 0
  /\ Get(v, K_ct).t = "str"

(* C7, as stated: every input whose six fields are all present but whose alg
   is not 'AES-GCM' or whose kdf is not 'PBKDF2' is rejected with an
   unsupported-algorithm error that names the offending value. *)
C7_PresentUnsupportedNamed ==
  (pOut.done /\ pForm \in WrittenForms /\ AllPresent(pObj) /\ Unsupported(pObj))
    => NamesOffending(pOut.res, pObj)

(* C7, amended: every input whose six fields are all present and none of
   them empty (no empty string, no zero), but whose alg is not 'AES-GCM' or
   whose kdf is not 'PBKDF2', is rejected with an unsupported-algorithm error
   that names the offending value; no such envelope is returned. *)
C7_NonEmptyUnsupportedNamed ==
  (/\ pOut.done
   /\ pForm \in WrittenForms
   /\ AllPresent(pObj)
   /\ NoneEmpty(pObj)
   /\ Unsupported(pObj))
    => NamesOffending(pOut.res, pObj)

\* The scenario: alg 'DES', every other field well-formed, as raw JSON text.
C7_Witness ==
  /\ pOut.done
  /\ pForm = "raw"
  /\ pObj = EncryptionPayload(JStr(Codes("DES")), JStr(PBKDF2), JStr(Salt16),
                              JStr(Iv12), JNum(200000), JStr(Ct17))
  /\ ~pOut.res.ok
  /\ pOut.res.error = UnsupportedAlgorithm(JStr(Codes("DES")))

\* The first attempt of parsePayload on a text would succeed.
WrappedParses(text) ==
  /\ atob(text).ok
  /\ JSONparse(atob(text).binary).ok

(* C8: for every valid envelope E, parsePayload(encodePayload(E)) equals E
   field for field, and parsePayload of the unwrapped JSON text of E returns
   E as well; the raw-JSON attempt is made only when the Base64 attempt
   fails. *)
C8_CodecSymmetry ==
  (pOut.done /\ pForm \in TextForms) =>
    /\ (EnvelopeInvariants(pObj) /\ pForm = "wrapped") =>
         /\ pOut.res.ok
         /\ pOut.res.payload = pObj
         /\ pOut.res.via = "base64"
    /\ (EnvelopeInvariants(pObj) /\ pForm \in {"raw", "indented"}) =>
         /\ pOut.res.ok
         /\ pOut.res.payload = pObj
    /\ (pOut.res.ok /\ pOut.res.via = "raw") => ~WrappedParses(pIn.input.text)
    /\ (pOut.res.ok /\ WrappedParses(pIn.input.text)) =>
         pOut.res.payload = JSONparse(atob(pIn.input.text).binary).val

\* A valid envelope given as unwrapped JSON text has come back through the
\* second attempt.
C8_Witness ==
  /\ pOut.done
  /\ pForm = "raw"
  /\ EnvelopeInvariants(pObj)
  /\ pOut.res.ok
  /\ pOut.res.via = "raw"
  /\ pOut.res.payload = pObj

(* C9: every envelope that parsePayload returns satisfies the envelope
   invariants: six fields present and non-empty, salt and iv decodable to
   non-empty byte sequences, iterations a positive integer. *)
C9_ReturnedSatisfiesInvariants ==
  (pOut.done /\ pOut.res.ok) => EnvelopeInvariants(pOut.res.payload)

(* C10: an input text that parses neither as Base64-wrapped JSON nor as raw
   JSON, or that parses to a value lacking one of the six fields (null, a
   number and a string included), fails with the malformed-envelope errors
   and with no other. *)
C10_MalformedOnly ==
  (pOut.done /\ pForm \in TextForms /\ (pForm = "pasted" \/ ~AllPresent(pObj)))
    => /\ ~pOut.res.ok
       /\ pOut.res.error \in {InvalidFormat, MissingFields}

-----------------------------------------------------------------------------
(* Properties of encrypt and decrypt *)

(* C1: for every plaintext P, a string or a buffer, and every passphrase K
   that is not blank, decrypt(encrypt(P, K), K) returns exactly P: the
   string itself, or a text whose bytes are those of the buffer. *)
C1_RoundTrip ==
  (cOut.done /\ cTamper = "none" /\ cOut.pass = cPass) =>
    /\ cOut.res.ok
    /\ cPlain.type = "string" => cOut.res.text = cPlain.text
    /\ cPlain.type = "buffer" => TextEncode(cOut.res.text) = cPlain.bytes

\* decrypt has reached the verification of the tag with a key, an iv or a
\* ciphertext other than those of the encryption.
TagFails ==
  /\ cOut.done
  /\ isCryptoSupported
  /\ ~IsBlank(cOut.pass)
  /\ cTamper # "none" \/ cOut.pass # cPass

\* What this engine's decrypt reports for a failed verification.
AuthenticationFailed ==
  IF browser = "firefox" THEN IncorrectOrCorrupted
  ELSE [name |-> "OperationError", message |-> ""]

(* C6: every failure of the tag verification in decrypt, by a wrong
   passphrase or by a flipped bit of the ciphertext or of the iv, is reported
   as one and the same error, and decrypt returns no plaintext then. *)
C6_TagFailureOneError ==
  TagFails => /\ ~cOut.res.ok
              /\ cOut.res.error = AuthenticationFailed

\* The right passphrase on an envelope whose ciphertext had a bit flipped.
C6_Witness ==
  /\ cOut.done
  /\ cTamper = "ct"
  /\ cOut.pass = cPass
  /\ ~cOut.res.ok
  /\ cOut.res.error = IncorrectOrCorrupted

\* The iteration count encrypt resolves from its options.
ResolvedIterations ==
  IF cOpts.iterations \in {Undefined, JNum(0)} THEN 200000
  ELSE cOpts.iterations.n

(* C11: decrypt derives its key from the salt and the iteration count of the
   envelope, never from the default of 200000: for an envelope made by
   encrypt with any iteration count, decrypt with the same passphrase uses
   the key encrypt used, so the tag verifies and a text is returned. *)
C11_KeyFromEnvelope ==
  (cOut.done /\ cTamper = "none" /\ cOut.pass = cPass) =>
    /\ Get(cEnv.res.payload, K_iterations) = JNum(ResolvedIterations)
    /\ cOut.res.ok
    /\ AesGcmDecrypt(
         deriveKey(cPass,
                   base64ToArrayBuffer(Get(cEnv.res.payload, K_salt).s).bytes,
                   ResolvedIterations).key,
         base64ToArrayBuffer(Get(cEnv.res.payload, K_iv).s).bytes,
         base64ToArrayBuffer(Get(cEnv.res.payload, K_ct).s).bytes).ok

\* An envelope made with 1000 iterations has been decrypted.
C11_Witness ==
  /\ cOut.done
  /\ cTamper = "none"
  /\ cOut.pass = cPass
  /\ cOpts.iterations = JNum(1000)
  /\ Get(cEnv.res.payload, K_iterations) = JNum(1000)
  /\ cOut.res.ok

-----------------------------------------------------------------------------
(* Properties of the passphrase check *)

\* The passphrases of the pool that are empty or only whitespace.
BlankPassphrases == {<<>>, <<9, 32>>}

\* The last call was a direct call of encrypt or decrypt with such a passphrase.
BlankCall ==
  sLast.done /\ sLast.op \in {"encrypt", "decrypt"} /\ sLast.pass \in BlankPassphrases

\* The call threw 'Passphrase cannot be empty', drew no random value and
\* returned nothing.
RejectedAsEmpty ==
  /\ sLast.res = [ok |-> FALSE, error |-> PassphraseEmpty]
  /\ rng = sLast.before

(* C12 as stated: encrypt and decrypt reject an empty or whitespace-only
   passphrase with the empty-passphrase error, before a salt or nonce is
   drawn, a key derived or the envelope decoded, and return nothing. *)
C12_BlankRejected == BlankCall => RejectedAsEmpty

(* C12, where the Web Crypto API is available: encrypt and decrypt reject an
   empty or whitespace-only passphrase with the empty-passphrase error, before
   a salt or nonce is drawn, a key derived or the envelope decoded, and
   return nothing. *)
C12_BlankRejectedWhereSupported ==
  (BlankCall /\ isCryptoSupported) => RejectedAsEmpty

\* decrypt of an envelope whose salt is not base64, with a whitespace
\* passphrase, after an encryption has drawn from the random source.
C12_Witness ==
  /\ BlankCall /\ isCryptoSupported /\ RejectedAsEmpty
  /\ sLast.op = "decrypt" /\ sLast.pass = <<9, 32>>
  /\ ~base64ToArrayBuffer(Get(sLast.given, K_salt).s).ok
  /\ rng > 0

-----------------------------------------------------------------------------
(* Properties of the keys *)

(* C13: deriveKey fails with the empty-passphrase error whenever its
   passphrase is empty after trimming, and returns a key only for a
   passphrase that is not. *)
C13_DeriveRejectsBlank ==
  kKey.done =>
    /\ IsBlank(kKey.pass) => kKey.res = [ok |-> FALSE, error |-> PassphraseEmpty]
    /\ kKey.res.ok => ~IsBlank(kKey.pass)

\* The key of the envelope went through exportKey and importKey.
KeyRoundTrip ==
  /\ kKey.done /\ kKey.pass = cPass /\ kKey.res.ok
  /\ kText.done /\ kImported.done /\ kImported.text = kText.text
  /\ kOut.done

(* C17: for E = encrypt(P, pass) and k the key derived from pass and the salt
   and iterations of E, decryptWithKey(E, importKey(exportKey(k))) returns P. *)
C17_KeyRoundTrip ==
  KeyRoundTrip =>
    /\ kOut.res.ok
    /\ cPlain.type = "string" => kOut.res.text = cPlain.text
    /\ cPlain.type = "buffer" => TextEncode(kOut.res.text) = cPlain.bytes

-----------------------------------------------------------------------------
(* Properties of the encrypt tab *)

\* The calls of encrypt so far that returned an envelope.
Made == {i \in 1..Len(sMade) : sMade[i].res.ok}

SaltOf(i) == base64ToArrayBuffer(Get(sMade[i].res.payload, K_salt).s).bytes
IvOf(i) == base64ToArrayBuffer(Get(sMade[i].res.payload, K_iv).s).bytes

(* C14: every encrypt call draws a salt of 16 bytes and a nonce of 12 bytes
   of its own: over any sequence of calls, by the tab or direct, no two
   envelopes share a salt or a nonce, the random source never handing out a
   value twice. *)
C14_FreshSaltAndNonce ==
  \A i \in Made :
    /\ Len(SaltOf(i)) = 16
    /\ Len(IvOf(i)) = 12
    /\ \A j \in Made \ {i} : SaltOf(i) # SaltOf(j) /\ IvOf(i) # IvOf(j)

\* Two encryptions of the same plaintext under the same passphrase.
C14_Witness ==
  /\ Made = {1, 2}
  /\ sMade[1].plain = sMade[2].plain
  /\ sMade[1].pass = sMade[2].pass
  /\ sMade[1].res.payload # sMade[2].res.payload

\* The last click encrypted, and the append to the history then failed.
StorageFailed ==
  sLast.done /\ sLast.op = "tab" /\ sLast.res.ok /\ sLast.full

(* C15: when the append to the history fails after a successful encryption,
   the handler ends with the envelope and its key still held as the result
   (shown next to the storage error), the envelope being the one encrypt
   returned and still decrypting to the plaintext; the store holds no entry
   for it. *)
C15_ResultSurvivesStorageFailure ==
  StorageFailed =>
    /\ sError = [done |-> TRUE, error |-> CouldNotSave]
    /\ sResult.done
    /\ sResult.payload = sLast.res.payload
    /\ sResult.key = deriveKey(sLast.pass,
                               base64ToArrayBuffer(Get(sResult.payload, K_salt).s).bytes,
                               Get(sResult.payload, K_iterations).n).key
    /\ decrypt(sResult.payload, sLast.pass) = [ok |-> TRUE, text |-> sLast.given]
    /\ \A i \in 1..Len(getHistory(ls, medium)) :
         getHistory(ls, medium)[i].payload # sResult.payload

\* The second click fails to save, after a first one whose entry was saved.
C15_Witness ==
  /\ StorageFailed
  /\ sResult.done
  /\ sError.done
  /\ Len(getHistory(ls, medium)) = 1

-----------------------------------------------------------------------------
(* Properties of removeFromHistory *)

\* A call of removeFromHistory returns.
RemoveReturns == pc[1] = "removeWrite" /\ pc'[1] = "idle"

(* C16: a call of removeFromHistory(id), with no other writer in between,
   returns without an error and leaves the history without the entry of that
   id and with every other entry unchanged and in the same relative order;
   when no entry has the id the history is as it was. *)
C16_RemovesOnlyThat ==
  [][RemoveReturns =>
       /\ outcome'[1] = "ok"
       /\ getHistory(ls', medium') =
            SelectSeq(getHistory(ls, medium), LAMBDA e : e.id # arg[1].id)
       /\ (\A i \in 1..Len(getHistory(ls, medium)) :
             getHistory(ls, medium)[i].id # arg[1].id)
          => getHistory(ls', medium') = getHistory(ls, medium)]_vars

\* The middle one of three entries is gone, the other two are left.
C16_Witness ==
  /\ pc[1] = "idle"
  /\ outcome[1] = "ok"
  /\ Len(getHistory(ls, medium)) = 2
  /\ {getHistory(ls, medium)[i].id : i \in 1..2} = {1, 3}
  /\ getHistory(ls, medium)[1].timestamp > getHistory(ls, medium)[2].timestamp

\* The envelopes that outlive a call: the returned ones, the one held as the
\* result, and the ones in the persisted history.
LongLived ==
  {sMade[i].res.payload : i \in Made}
  \cup (IF sResult.done THEN {sResult.payload} ELSE {})
  \cup {getHistory(ls, medium)[i].payload : i \in 1..Len(getHistory(ls, medium))}

\* The secrets of the i-th call: the passphrase as text, as bytes and in
\* Base64, the bytes of the derived key, and the key in Base64, in base64url
\* and as exported text.
SecretsOf(i) ==
  LET key == deriveKey(sMade[i].pass, SaltOf(i),
                       Get(sMade[i].res.payload, K_iterations).n).key
  IN {sMade[i].pass, TextEncode(sMade[i].pass),
      B64Encode(TextEncode(sMade[i].pass)),
      key, B64Encode(key), Base64UrlEncode(key), exportKey(key)}

\* The value has the six members of an envelope and nothing else, and neither
\* a member as it is written nor the bytes it encodes hold one of the secrets.
HoldsNoSecret(payload, secrets) ==
  /\ DOMAIN payload = {"t", "members"}
  /\ payload.t = "obj"
  /\ [k \in 1..Len(payload.members) |-> payload.members[k][1]] = RequiredFields
  /\ Get(payload, K_alg) = JStr(AES_GCM)
  /\ Get(payload, K_kdf) = JStr(PBKDF2)
  /\ Get(payload, K_iterations).t = "num"
  /\ \A name \in {K_salt, K_iv, K_ct} :
       /\ Get(payload, name).t = "str"
       /\ base64ToArrayBuffer(Get(payload, name).s).ok
       /\ \A secret \in secrets :
            /\ ~Includes(Get(payload, name).s, secret)
            /\ ~Includes(base64ToArrayBuffer(Get(payload, name).s).bytes, secret)

(* C18: in every state, each envelope that was returned, is held as the
   result or is persisted in the history has exactly the members alg, kdf,
   salt, iv, iterations and ct, none of them holding the passphrase, the
   derived key or the exported key text of any call; each persisted entry
   has exactly id, name, timestamp, payload and size, the name being the
   file name and the size the length of the plaintext. *)
C18_NoSecretOutlivesCall ==
  /\ \A payload \in LongLived :
       HoldsNoSecret(payload, UNION {SecretsOf(i) : i \in Made})
  /\ \A i \in 1..Len(getHistory(ls, medium)) :
       LET e == getHistory(ls, medium)[i] IN
       /\ DOMAIN e = {"t", "id", "name", "timestamp", "payload", "size"}
       /\ e.id \in Nat
       /\ e.timestamp \in Nat
       /\ e.name \in {"encrypted", "Untitled"}
       /\ \E j \in Made : e.size = Len(sMade[j].plain) /\ e.payload = sMade[j].res.payload

\* Two clicks have left two entries and a result.
C18_Witness ==
  /\ Len(getHistory(ls, medium)) = 2
  /\ Made = {1, 2}
  /\ sResult.done
  /\ sResult.payload = getHistory(ls, medium)[1].payload

-----------------------------------------------------------------------------
(* Properties of the strength meter *)

\* The classes found in a password
ClassesOf(password) ==
  {class \in {"lower", "upper", "digit", "symbol"} :
     \E i \in 1..Len(password) :
       CASE class = "lower" -> password[i] \in 97..122
         [] class = "upper" -> password[i] \in 65..90
         [] class = "digit" -> password[i] \in 48..57
         [] class = "symbol" -> password[i] \notin (97..122) \cup (65..90) \cup (48..57)}

\* 26 for lowercase, 26 for uppercase, 10 for digits, 32 for symbols
SizeOf(classes) ==
  (IF "lower" \in classes THEN 26 ELSE 0) + (IF "upper" \in classes THEN 26 ELSE 0)
  + (IF "digit" \in classes THEN 10 ELSE 0) + (IF "symbol" \in classes THEN 32 ELSE 0)

\* length x log2(charset size) of the password in the field, in millionths
Estimated == Len(wPwd) * Log2Micro(SizeOf(ClassesOf(wPwd)))

(* C19: the score is in 0..4 and is the step function of the estimated
   entropy, length x log2(charset size): below 28 bits 0, below 36 bits 1,
   below 60 bits 2, below 128 bits 3, otherwise 4, with the feedback of that
   score and the entropy rounded to a whole number; the empty password gives
   score 0, entropy 0 and 'Password required'. *)
C19_ScoreIsStepOfEntropy ==
  IF wPwd = <<>>
  THEN wRes.res = [score |-> 0, entropy |-> 0, feedback |-> "Password required"]
  ELSE /\ wRes.res.score \in 0..4
       /\ wRes.res.score = 0 <=> Estimated < 28 * 1000000
       /\ wRes.res.score = 1 <=> Estimated >= 28 * 1000000 /\ Estimated < 36 * 1000000
       /\ wRes.res.score = 2 <=> Estimated >= 36 * 1000000 /\ Estimated < 60 * 1000000
       /\ wRes.res.score = 3 <=> Estimated >= 60 * 1000000 /\ Estimated < 128 * 1000000
       /\ wRes.res.score = 4 <=> Estimated >= 128 * 1000000
       /\ wRes.res.entropy * 1000000 - 500000 <= Estimated
       /\ Estimated < wRes.res.entropy * 1000000 + 500000
       /\ wRes.res.feedback # "Password required"
       /\ wRes.res.feedback =
            <<"Very weak - use longer passphrase", "Weak - add more characters",
              "Fair - consider more complexity", "Strong - good passphrase",
              "Very strong - excellent">>[wRes.res.score + 1]

\* Twelve symbols: an entropy of exactly 60 bits, the first of score 3.
C19_Witness ==
  /\ Len(wPwd) = 12
  /\ ClassesOf(wPwd) = {"symbol"}
  /\ Estimated = 60 * 1000000
  /\ wRes.res.score = 3
  /\ wPrev.res.score = 2

\* A password of n characters with the given classes, n being at least their
\* number: one character of each class, the last one repeated.
OfClasses(classes, n) ==
  LET base == SelectSeq(<<97, 90, 55, 33>>,
                        LAMBDA c : ClassesOf(<<c>>) \subseteq classes)
  IN [i \in 1..n |-> base[IF i < Len(base) THEN i ELSE Len(base)]]

(* C20: among passwords with the same set of detected classes the score is
   non-decreasing in the length: no shorter password of the classes of the
   one in the field scores higher than it, and the password before the last
   key, when of the same classes, scores no higher either. *)
C20_MonotoneInLength ==
  LET classes == ClassesOf(wPwd) IN
  /\ \A n \in Cardinality(classes)..Len(wPwd) :
       LET shorter == OfClasses(classes, n) IN
       n > 0 =>
         /\ ClassesOf(shorter) = classes
         /\ calculatePasswordStrength(shorter).score <= wRes.res.score
  /\ (wPrev.done /\ ClassesOf(wPrev.password) = classes)
       => wPrev.res.score <= wRes.res.score

\* The key that lifts a password of one class from score 3 to score 4.
C20_Witness ==
  /\ wPrev.done
  /\ ClassesOf(wPrev.password) = ClassesOf(wPwd)
  /\ Cardinality(ClassesOf(wPwd)) = 1
  /\ wPrev.res.score = 3
  /\ wRes.res.score = 4

-----------------------------------------------------------------------------
(* Properties of the passphrase generator *)

\* The positions of the separator in the generated text, and its two ends.
Cuts ==
  <<0>> \o SelectSeq([i \in 1..Len(gOut.text) |-> i],
                     LAMBDA i : gOut.text[i] = 45)
        \o <<Len(gOut.text) + 1>>

\* The pieces of the generated text between separators.
Pieces ==
  LET cuts == Cuts IN
  [k \in 1..(Len(cuts) - 1) |-> SubSeq(gOut.text, cuts[k] + 1, cuts[k + 1] - 1)]

(* C21: for the word counts of the select (4, 6 and 8), the text
   generatePassphrase returns consists of exactly that many words separated
   by '-', each a word of the list of 36, the i-th being the one at the i-th
   random value modulo 36; a word may come more than once. *)
C21_WordsJoined ==
  gOut.done =>
    LET pieces == Pieces IN
    /\ gOut.length \in {4, 6, 8}
    /\ Len(Words) = 36
    /\ Len(pieces) = gOut.length
    /\ \A k \in 1..Len(pieces) :
         LET piece == pieces[k] IN
         /\ \E w \in 1..36 : piece = Words[w]
         /\ piece = Words[(gOut.randomValues[k] % 36) + 1]
    /\ wPwd = gOut.text

\* Eight words, the first and the last of the list among them, one repeated.
C21_Witness ==
  /\ gOut.done
  /\ gOut.length = 8
  /\ Pieces[1] = Codes("anchor")
  /\ Pieces[2] = Codes("jade")
  /\ Pieces[3] = Codes("jade")
  /\ Pieces[8] = Codes("tiger")

-----------------------------------------------------------------------------
(* Properties of the iteration count *)

\* The count an envelope records.
Recorded == Get(cEnv.res.payload, K_iterations)

(* C22: the envelope encrypt returns records the caller's iteration count
   when one is given and 200000 otherwise (a count of 0 being none), the
   recorded count is a positive integer, and the key that encrypted is the one
   derived with exactly that count. *)
C22_ResolvedIterations ==
  (cEnv.done /\ cEnv.res.ok) =>
    /\ Recorded = IF cOpts.iterations \in {Undefined, JNum(0)} THEN JNum(200000)
                  ELSE cOpts.iterations
    /\ Recorded.t = "num"
    /\ DOMAIN Recorded = {"t", "n"}
    /\ Recorded.n > 0
    /\ AesGcmDecrypt(
         deriveKey(cPass, base64ToArrayBuffer(Get(cEnv.res.payload, K_salt).s).bytes,
                   Recorded.n).key,
         base64ToArrayBuffer(Get(cEnv.res.payload, K_iv).s).bytes,
         base64ToArrayBuffer(Get(cEnv.res.payload, K_ct).s).bytes).ok

-----------------------------------------------------------------------------
(* Properties of the decrypt tab *)

\* The last attempt of handleDecrypt has ended, and ended in the catch block.
LastFailed == dLast.done /\ ~dLast.res.ok /\ ~dFlight.done

(* C23: from the start of the try block of handleDecrypt on, no plaintext is
   in `result` unless the attempt succeeds: while the attempt is awaited and
   after it has failed `result` is null, so the plaintext of an earlier
   success never stands beside the error of a later failed attempt; and
   isDecrypting is true exactly while an attempt is awaited, so it is false
   again when the attempt has ended. *)
C23_FailureLeavesNoPlaintext ==
  /\ dBusy = dFlight.done
  /\ dFlight.done => dResult = NotYet
  /\ LastFailed => (dResult = NotYet /\ ~dBusy)

\* A plaintext was on display, the next attempt was awaited and failed, and
\* its error is on display without the plaintext.
C23_Witness ==
  /\ dHad
  /\ LastFailed
  /\ dLast.awaits.call = "decrypt"
  /\ dError.done
  /\ dError.message = dLast.res.error.message
  /\ dResult = NotYet
  /\ ~dBusy

\* The key files whose import has settled in this step.
SettledImports == dImport \ dImport'

(* C24: every attempt of handleDecrypt that starts while a key is imported
   awaits decryptWithKey with that key, and one that starts while none is
   imported awaits decrypt with the passphrase of the field; the passphrase
   field is empty whenever a key is imported; and the imported key changes
   only when an import succeeds, to the key of that import, so a failed import
   leaves it in place and nothing removes it. *)
C24_ImportedKeyDecides ==
  [][/\ (dFlight'.done /\ ~dFlight.done) =>
          IF dKey.done
          THEN /\ dFlight'.awaits.call = "decryptWithKey"
               /\ dFlight'.awaits.key = dKey.key
          ELSE /\ dFlight'.awaits.call = "decrypt"
               /\ dFlight'.awaits.passphrase = dPass
     /\ dKey.done => dPass = <<>>
     /\ dKey'.done => dPass' = <<>>
     /\ dKey.done => dKey'.done
     /\ (dKey' # dKey) =>
          \E content \in SettledImports :
            /\ importKey(content).ok
            /\ dKey' = [done |-> TRUE, key |-> importKey(content).key]
    ]_vars

\* With the key of the envelope imported, the decryption went through
\* decryptWithKey and succeeded, and a later import that failed has left the
\* key in place.
C24_Witness ==
  /\ dKey.done
  /\ dKey.key = SavedKey
  /\ dLast.done
  /\ dLast.awaits.call = "decryptWithKey"
  /\ dLast.imported = dKey
  /\ dLast.res.ok
  /\ dResult.done
  /\ dResult.text = Codes("hi")
  /\ dError.done
  /\ dError.message = FailedToImport.message

-----------------------------------------------------------------------------
(* Properties of the shared store under interleaving *)

\* No removeFromHistory or clearHistory call has been made, no setItem has
\* thrown, and fewer entries than the cap have ever been written.
NothingTakenOut == disturbed = 0 /\ nextId < MAX_ITEMS

(* C25: no successful append is lost: while no entry has been removed,
   cleared or evicted by the cap, every entry whose addToHistory call has
   returned without error is in what getHistory() returns, also when the
   calls of two callers interleave between their read and their write. *)
C25_NoAppendLost ==
  NothingTakenOut =>
    \A i \in 1..Len(appended) :
      \E j \in 1..Len(Stored) : Stored[j].id = appended[i]

=============================================================================
